---- MODULE Spec2Model ----
(***************************************************************************)
(* Verification model of the geo_linked_open_data_kg pipeline.             *)
(*                                                                         *)
(*  Spec          the Admin Hierarchy Builder                              *)
(*                (scripts/linkers/create_admin_hierarchies_robust.py):    *)
(*                progress file, per-country batches, SIGINT, crash, DB    *)
(*                errors, restarts.                                        *)
(*  SpecResolver  the Spatial Resolver: Phase A (direct id match, both     *)
(*                link_direct_geonames_ids.py and                          *)
(*                link_wikidata_places_global.py) and Phase B              *)
(*                (link_spatial_optimized.py and                           *)
(*                link_wikidata_places_global.py).                         *)
(*                                                                         *)
(* The graph store is modelled as bags (multisets) of nodes and edges so   *)
(* that a duplicate node or edge is a representable state.                 *)
(***************************************************************************)
EXTENDS Integers, Sequences, FiniteSets, Bags, TLC

VARIABLES
    \* ---- Admin Hierarchy Builder ----
    pc,            \* position of the builder process ("stopped" = no process)
    state,         \* self.state: [completed_countries, failed_countries]
    file,          \* the progress file on disk: [kind, data]
    countries,     \* build_all's local worklist (result of get_country_list)
    idx,           \* position of the for-loop over the worklist (1-based)
    step,          \* batch number inside the current country phase (0-based)
    adminDiv,      \* bag of AdminDivision nodes, by geonameId
    locAdmin1,     \* bag of LOCATED_IN_ADMIN1 edges <<placeId, adminId>>
    countryNode,   \* bag of Country nodes, by code
    partOfCountry, \* bag of PART_OF edges <<adminId, countryCode>>
    partOfAdmin,   \* bag of PART_OF edges <<adminId, adminId>>
    runs,          \* number of times main() has been started
    nCancel,       \* number of SIGINTs delivered so far
    nCrash,        \* number of hard crashes (kill -9, power loss) so far
    nFail,         \* number of store errors raised so far
    lastStop,      \* how the last process ended
    finished,      \* history: countries whose loop iteration ran to its end
    stoppedAt,     \* history: position at which the last process ended
    \* ---- Spatial Resolver ----
    world,         \* the WikidataPlace nodes the store holds (chosen at Init)
    rel,           \* set of resolver edges (SAME_AS / NEAR / LOCATED_IN)
    rpc,           \* position of the link_spatial_optimized process
    rseen,         \* history: sources fetched by its running / last run
    rcountries,    \* its worklist of countryQid
    ridx,          \* its position in the worklist
    rbatches,      \* passes of its batch loop for the current country
    rfetched,      \* the WikidataPlaces its current pass fetched
    rwrites,       \* write statements of its current pass, not yet run
    gpc,           \* position of the link_wikidata_places_global process
    gcountries,    \* its worklist of countryQid
    gidx,          \* its position in the worklist
    gwrites,       \* write statements of its current country, not yet run
    rruns,         \* number of resolver phase invocations so far
    rfailed,       \* countries whose Phase B processing raised an error
    rlast,         \* how the last resolver invocation ended
    \* ---- Admin3 linker (add_admin3_links.py) ----
    a3store,       \* the non-admin Places the store holds (chosen at Init)
    locAdmin3,     \* set of LOCATED_IN_ADMIN3 edges <<place, division>>
    partOf43,      \* set of ADM4 -> ADM3 PART_OF edges
    a3pc,          \* position of the linker process
    a3countries,   \* its worklist of country codes
    a3idx,         \* position in the worklist
    a3total,       \* count(p) taken before the batches of the country
    a3skip,        \* number of batch queries issued for the country
    a3runs,        \* number of linker runs started
    a3last,        \* how the last linker run ended
    \* ---- Wikidata filters ----
    finput,        \* the lines of the dump (chosen at Init)
    fkind,         \* which filter runs: "geo" or "people"
    fpc,           \* position of the filter process
    fpos,          \* number of lines read
    fbuf,          \* output_buffer
    fout,          \* records written to the output stream
    ferrors,       \* stats['parse_errors']
    ftotal,        \* stats['total_entities']
    fwith,         \* stats['with_coordinates']
    fmeta,         \* the metadata header line has been written to the stream
    fprev,         \* history: the output of the previous run and whether it completed
    fruns,         \* number of filter runs started
    \* ---- GeoNames gazetteer loaders ----
    gzinput,       \* the rows of the tab-separated file (chosen at Init)
    gzkind,        \* which loader runs: "global" or "basic"
    gzpc,          \* position of the loader process
    gzpos,         \* number of rows read
    gzbatch,       \* the batch list of parsed places
    gzsent,        \* history: every place passed to load_places_batch
    gzstore,       \* the Place nodes of the store
    gzskipped,     \* skipped_count
    \* ---- Wikidata store writer (WikidataLoader) ----
    wdinput,       \* the lines of the stream file (chosen at Init)
    wdkind,        \* which stream is loaded: "geo", "people" or "orgs"
    wdpc,          \* position of the loader process
    wdpos,         \* number of lines read
    wdbatch,       \* the batch list
    wdseen,        \* history: the records passed to _load_geo_batch
    wdstore,       \* the nodes of the store: [label, qid, latitude, longitude]
    wdstats,       \* coord_stats: [fixed_swapped, skipped_invalid, skipped_missing]
    wdcount,       \* count
    \* ---- LINCS family relationships loader ----
    faminput,      \* the marriage facts of the persons file (chosen at Init)
    famparents,    \* the birth events with a mother or father (chosen at Init)
    fampc,         \* position of the loader process
    famlist,       \* spouse_list
    famplist,      \* parent_child_rels
    famidx,        \* number of batches issued in the current loop
    famnodes,      \* personId of the HistoricalPerson nodes of the store
    famedges,      \* the relationships of the store: [id, type, src, dst, prop]
    famruns        \* number of runs started

adminVars == <<pc, state, file, countries, idx, step, adminDiv, locAdmin1,
               countryNode, partOfCountry, partOfAdmin, runs, nCancel, nCrash,
               nFail, lastStop, finished, stoppedAt>>

optVars == <<rpc, rseen, rcountries, ridx, rbatches, rfetched, rwrites>>

globalVars == <<gpc, gcountries, gidx, gwrites>>

resolverVars == <<world, rel, rruns, rfailed, rlast, optVars, globalVars>>

linkerVars == <<a3store, locAdmin3, partOf43, a3pc, a3countries, a3idx,
                a3total, a3skip, a3runs, a3last>>

filterVars == <<finput, fkind, fpc, fpos, fbuf, fout, ferrors, ftotal, fwith,
                fmeta, fprev, fruns>>

gazVars == <<gzinput, gzkind, gzpc, gzpos, gzbatch, gzsent, gzstore, gzskipped>>

wdlVars == <<wdinput, wdkind, wdpc, wdpos, wdbatch, wdseen, wdstore, wdstats,
             wdcount>>

famVars == <<faminput, famparents, fampc, famlist, famplist, famidx, famnodes,
            famedges,
             famruns>>

loadVars == <<gazVars, wdlVars, famVars>>

otherVars == <<linkerVars, filterVars, loadVars>>

vars == <<adminVars, resolverVars, otherVars>>

----------------------------------------------------------------------------
(* Generic helpers                                                          *)

NULL == "NULL"

Range(s) == {s[i] : i \in DOMAIN s}

Min(a, b) == IF a < b THEN a ELSE b

Max(a, b) == IF a > b THEN a ELSE b

\* Ascending sequence of a finite set of integers.
RECURSIVE SortedSeq(_)
SortedSeq(S) ==
    IF S = {} THEN <<>>
    ELSE LET m == CHOOSE x \in S : \A y \in S : x <= y
         IN <<m>> \o SortedSeq(S \ {m})

\* Cypher "WITH x SKIP $skip LIMIT $limit" over an ordered row stream.
SkipLimit(rows, skip, limit) ==
    SubSeq(rows, skip + 1, Min(skip + limit, Len(rows)))

\* Python range(0, total, batch) as a sequence of skip values.
RangeSteps(total, batch) ==
    [i \in 1..((total + batch - 1) \div batch) |-> (i - 1) * batch]

----------------------------------------------------------------------------
(* Bounds                                                                   *)

BatchSize == 2
MegaThreshold == 2
UltraThreshold == 4
MaxRuns == 3
MaxCancels == 1
MaxCrashes == 1
MaxFails == 1

----------------------------------------------------------------------------
(* The gazetteer held by the store while the builder runs.  The builder     *)
(* never writes a Place, so the Place set is a fixed input.                 *)

Pl(id, cc, cls, code, a1, a2) ==
    [geonameId |-> id, countryCode |-> cc, featureClass |-> cls,
     featureCode |-> code, admin1Code |-> a1, admin2Code |-> a2]

Places ==
    { \* AD: a small country (single scan)
      Pl(1, "AD", "A", "ADM1", "07", NULL),
      Pl(2, "AD", "P", "PPL",  "07", NULL),
      Pl(3, "AD", "T", "MT",   NULL, NULL),
      \* CA: more than MegaThreshold non-admin places (admin1 partition)
      Pl(10, "CA", "A", "ADM1", "08", NULL),
      Pl(11, "CA", "A", "ADM2", "08", "3520"),
      Pl(12, "CA", "A", "ADM3", "08", "3520"),
      Pl(13, "CA", "P", "PPLA", "08", "3520"),
      Pl(14, "CA", "P", "PPL",  "08", NULL),
      Pl(15, "CA", "S", "TOWR", "10", NULL),
      \* US: more than UltraThreshold non-admin places (admin1 then admin2)
      Pl(20, "US", "A", "ADM1", "NY", NULL),
      Pl(21, "US", "P", "PPL",  "NY", "047"),
      Pl(22, "US", "P", "PPL",  "NY", "047"),
      Pl(23, "US", "P", "PPL",  "NY", "081"),
      Pl(24, "US", "H", "LK",   "NY", NULL),
      Pl(25, "US", "P", "PPL",  "ZZ", "001") }

PlaceOf(id) == CHOOSE p \in Places : p.geonameId = id

\* Lexical order of the country and admin codes that occur (ORDER BY code,
\* and the order in which DISTINCT codes are returned).
CountryOrder == <<"AD", "CA", "US">>
CodeOrder == <<"001", "047", "07", "08", "081", "10", "3520", "NY", "ZZ">>

AdminFeatureCodes == {"ADM1", "ADM2", "ADM3", "ADM4", "ADMD"}

EmptyState == [completed_countries |-> <<>>, failed_countries |-> <<>>]

NoFile == [kind |-> "absent", data |-> EmptyState]

----------------------------------------------------------------------------
(* MERGE / store writes                                                     *)

\* A plausible bug: CREATE instead of MERGE.
MergeAsCreate(bag, e) == bag (+) SetToBag({e})

\* Cypher MERGE of one node or edge keyed by e: create only if absent.
Merge(bag, e) == IF BagIn(e, bag) THEN bag ELSE bag (+) SetToBag({e})

RECURSIVE MergeAll(_, _)
MergeAll(bag, rows) ==
    IF rows = <<>> THEN bag
    ELSE MergeAll(Merge(bag, Head(rows)), Tail(rows))

\* Ascending sequence of a finite set of pairs of integers.
RECURSIVE SortedPairs(_)
SortedPairs(S) ==
    IF S = {} THEN <<>>
    ELSE LET m == CHOOSE x \in S : \A y \in S :
                      x[1] < y[1] \/ (x[1] = y[1] /\ x[2] <= y[2])
         IN <<m>> \o SortedPairs(S \ {m})

----------------------------------------------------------------------------
(* load_state / get_country_list                                            *)

\* load_state: the default when the file is absent, else json.load.
LoadState(f) == IF f.kind = "absent" THEN EmptyState ELSE f.data

\* get_country_list: DISTINCT countryCode ORDER BY code, minus completed.
Remaining(st) ==
    SelectSeq(CountryOrder,
        LAMBDA c : /\ \E p \in Places : p.countryCode = c
                   /\ c \notin Range(st.completed_countries))

FailedNames(st) == {st.failed_countries[i].country :
                        i \in DOMAIN st.failed_countries}

----------------------------------------------------------------------------
(* create_admin_divisions_for_country                                       *)

AdminPlaceRows(c) ==
    SortedSeq({p.geonameId : p \in {q \in Places :
        /\ q.countryCode = c
        /\ q.featureClass = "A"
        /\ q.featureCode \in AdminFeatureCodes}})

DivBatches(c) == RangeSteps(Len(AdminPlaceRows(c)), BatchSize)

----------------------------------------------------------------------------
(* link_places_to_admin1_for_country and its three strategies               *)

count_places_for_country(c) ==
    Cardinality({p \in Places : p.countryCode = c /\ p.featureClass # "A"})

Strategy(c) ==
    LET total == count_places_for_country(c)
    IN IF total = 0 THEN "none"
       ELSE IF total > UltraThreshold THEN "ultra"
       ELSE IF total > MegaThreshold THEN "mega"
       ELSE "normal"

\* DISTINCT admin1Code of the non-admin Places of c.
Admin1Codes(c) ==
    SelectSeq(CodeOrder, LAMBDA a : \E p \in Places :
        /\ p.countryCode = c /\ p.admin1Code = a /\ p.featureClass # "A")

\* DISTINCT admin2Code of the non-admin Places of c inside admin1 a.
Admin2Codes(c, a) ==
    SelectSeq(CodeOrder, LAMBDA b : \E p \in Places :
        /\ p.countryCode = c /\ p.admin1Code = a
        /\ p.admin2Code = b /\ p.featureClass # "A")

\* Rows matched by the first MATCH of a batch query q = [a1, a2, skip];
\* "*" stands for the absence of that equality test.
RowsFor(c, q) ==
    SortedSeq({p.geonameId : p \in {r \in Places :
        /\ r.countryCode = c
        /\ r.featureClass # "A"
        /\ IF q.a1 = "*" THEN r.admin1Code # NULL ELSE r.admin1Code = q.a1
        /\ IF q.a2 = "*" THEN TRUE ELSE r.admin2Code = q.a2}})

\* count(p) of a region / district (the count queries do not test
\* admin1Code IS NOT NULL in the single-scan strategy).
RegionTotal(c, a1, a2) ==
    Cardinality({r \in Places :
        /\ r.countryCode = c
        /\ r.featureClass # "A"
        /\ IF a1 = "*" THEN TRUE ELSE r.admin1Code = a1
        /\ IF a2 = "*" THEN TRUE ELSE r.admin2Code = a2})

Queries(c, a1, a2) ==
    LET sk == RangeSteps(RegionTotal(c, a1, a2), BatchSize)
    IN [i \in DOMAIN sk |-> [a1 |-> a1, a2 |-> a2, skip |-> sk[i]]]

RECURSIVE MegaPlan(_, _)
MegaPlan(c, codes) ==
    IF codes = <<>> THEN <<>>
    ELSE Queries(c, Head(codes), "*") \o MegaPlan(c, Tail(codes))

RECURSIVE DistrictPlan(_, _, _)
DistrictPlan(c, a1, codes2) ==
    IF codes2 = <<>> THEN <<>>
    ELSE Queries(c, a1, Head(codes2)) \o DistrictPlan(c, a1, Tail(codes2))

RECURSIVE UltraPlan(_, _)
UltraPlan(c, codes) ==
    IF codes = <<>> THEN <<>>
    ELSE DistrictPlan(c, Head(codes), Admin2Codes(c, Head(codes)))
             \o UltraPlan(c, Tail(codes))

\* The batch queries link_places_to_admin1_for_country issues, in order.
LinkPlan(c) ==
    CASE Strategy(c) = "none"   -> <<>>
      [] Strategy(c) = "normal" -> Queries(c, "*", "*")
      [] Strategy(c) = "mega"   -> MegaPlan(c, Admin1Codes(c))
      [] Strategy(c) = "ultra"  -> UltraPlan(c, Admin1Codes(c))

\* MATCH (a:AdminDivision {featureCode:'ADM1', countryCode, admin1Code}):
\* the ADM1 divisions present in the store that match Place id.
Adm1DivisionsFor(divs, id) ==
    {a \in BagToSet(divs) :
        /\ PlaceOf(a).featureCode = "ADM1"
        /\ PlaceOf(a).countryCode = PlaceOf(id).countryCode
        /\ PlaceOf(a).admin1Code = PlaceOf(id).admin1Code}

\* The (place, division) rows one batch query MERGEs.
LinkRows(divs, c, q) ==
    LET batch == Range(SkipLimit(RowsFor(c, q), q.skip, BatchSize))
    IN SortedPairs({pa \in batch \X BagToSet(divs) :
                        pa[2] \in Adm1DivisionsFor(divs, pa[1])})

----------------------------------------------------------------------------
(* link_admin_divisions_hierarchically: the rows of its three queries       *)

Adm1Nodes(divs) ==
    {a \in BagToSet(divs) : /\ PlaceOf(a).featureCode = "ADM1"
                            /\ PlaceOf(a).countryCode # NULL}

\* Admin2 -> Admin1 rows.
Hier2Rows(divs) ==
    SortedPairs({aa \in BagToSet(divs) \X BagToSet(divs) :
        /\ PlaceOf(aa[1]).featureCode = "ADM2"
        /\ PlaceOf(aa[1]).admin1Code # NULL
        /\ PlaceOf(aa[2]).featureCode = "ADM1"
        /\ PlaceOf(aa[2]).countryCode = PlaceOf(aa[1]).countryCode
        /\ PlaceOf(aa[2]).admin1Code = PlaceOf(aa[1]).admin1Code})

\* Admin3 -> Admin2 rows.
Hier3Rows(divs) ==
    SortedPairs({aa \in BagToSet(divs) \X BagToSet(divs) :
        /\ PlaceOf(aa[1]).featureCode = "ADM3"
        /\ PlaceOf(aa[1]).admin2Code # NULL
        /\ PlaceOf(aa[2]).featureCode = "ADM2"
        /\ PlaceOf(aa[2]).countryCode = PlaceOf(aa[1]).countryCode
        /\ PlaceOf(aa[2]).admin1Code = PlaceOf(aa[1]).admin1Code
        /\ PlaceOf(aa[2]).admin2Code = PlaceOf(aa[1]).admin2Code})

RECURSIVE MergeCountryNodes(_, _)
MergeCountryNodes(bag, ids) ==
    IF ids = <<>> THEN bag
    ELSE MergeCountryNodes(Merge(bag, PlaceOf(Head(ids)).countryCode),
                           Tail(ids))

RECURSIVE MergeCountryEdges(_, _)
MergeCountryEdges(bag, ids) ==
    IF ids = <<>> THEN bag
    ELSE MergeCountryEdges(
             Merge(bag, <<Head(ids), PlaceOf(Head(ids)).countryCode>>),
             Tail(ids))

----------------------------------------------------------------------------
(* The builder process                                                      *)

InCountry == {"divs", "link"}
SavePcs == {"done_open", "done_dump", "fail_open", "fail_dump"}
OuterPcs == {"init", "hier1", "hier2", "hier3", "stats"}

\* What every way of ending the process does to its in-memory variables.
ProcessGone(how) ==
    /\ pc' = "stopped"
    /\ lastStop' = how
    /\ stoppedAt' = pc
    /\ state' = EmptyState
    /\ countries' = <<>>
    /\ idx' = 0
    /\ step' = 0

dbVars == <<adminDiv, locAdmin1, countryNode, partOfCountry, partOfAdmin>>

\* main(): AdminHierarchyBuilder.__init__ runs load_state.  json.load on a
\* truncated file raises JSONDecodeError, which leaves main.
Start ==
    /\ pc = "stopped"
    /\ runs < MaxRuns
    /\ runs' = runs + 1
    /\ IF file.kind = "truncated"
       THEN ProcessGone("error")
       ELSE /\ state' = LoadState(file)
            /\ pc' = "init"
            /\ lastStop' = "running"
            /\ UNCHANGED <<countries, idx, step, stoppedAt>>
    /\ UNCHANGED <<otherVars, resolverVars, file, dbVars, nCancel, nCrash, nFail,
                   finished>>

\* build_all steps 1-2: create_indexes, get_country_list.
GetCountryList ==
    /\ pc = "init"
    /\ countries' = Remaining(state)
    /\ idx' = 1
    /\ pc' = "loop"
    /\ UNCHANGED <<otherVars, resolverVars, stoppedAt, state, file, step, dbVars, runs,
                   nCancel, nCrash, nFail, lastStop, finished>>

\* The head of "for country in countries" (and "if not countries").
LoopHead ==
    /\ pc = "loop"
    /\ pc' = IF idx > Len(countries) THEN "hier1" ELSE "divs"
    /\ step' = 0
    /\ UNCHANGED <<otherVars, resolverVars, stoppedAt, state, file, countries, idx,
                   dbVars, runs, nCancel, nCrash, nFail, lastStop, finished>>

\* One batch query of create_admin_divisions_for_country.
CreateAdminDivisionsBatch ==
    /\ pc = "divs"
    /\ step < Len(DivBatches(countries[idx]))
    /\ adminDiv' = MergeAll(adminDiv,
           SkipLimit(AdminPlaceRows(countries[idx]),
                     DivBatches(countries[idx])[step + 1], BatchSize))
    /\ step' = step + 1
    /\ UNCHANGED <<otherVars, resolverVars, stoppedAt, pc, state, file, countries, idx,
                   locAdmin1, countryNode, partOfCountry, partOfAdmin, runs,
                   nCancel, nCrash, nFail, lastStop, finished>>

\* create_admin_divisions_for_country returns (also when total = 0).
CreateAdminDivisionsReturn ==
    /\ pc = "divs"
    /\ step = Len(DivBatches(countries[idx]))
    /\ pc' = "link"
    /\ step' = 0
    /\ UNCHANGED <<otherVars, resolverVars, stoppedAt, state, file, countries, idx,
                   dbVars, runs, nCancel, nCrash, nFail, lastStop, finished>>

\* One batch query of _link_normal_country / _link_mega_country_by_admin1 /
\* _link_ultra_mega_country_by_admin2.
LinkBatch ==
    /\ pc = "link"
    /\ step < Len(LinkPlan(countries[idx]))
    /\ locAdmin1' = MergeAll(locAdmin1,
           LinkRows(adminDiv, countries[idx],
                    LinkPlan(countries[idx])[step + 1]))
    /\ step' = step + 1
    /\ UNCHANGED <<otherVars, resolverVars, stoppedAt, pc, state, file, countries, idx,
                   adminDiv, countryNode, partOfCountry, partOfAdmin, runs,
                   nCancel, nCrash, nFail, lastStop, finished>>

\* link_places_to_admin1_for_country returns; the country is appended to
\* completed_countries (line 454).
MarkCompleted ==
    /\ pc = "link"
    /\ step = Len(LinkPlan(countries[idx]))
    /\ state' = [state EXCEPT !.completed_countries =
                     Append(@, countries[idx])]
    /\ pc' = "done_open"
    /\ UNCHANGED <<otherVars, resolverVars, stoppedAt, file, countries, idx, step,
                   dbVars, runs, nCancel, nCrash, nFail, lastStop, finished>>

\* A plausible bug: "break" instead of recording the failure and
\* "continue": the loop is left at the first failing country.
CountryFailedBreaks ==
    /\ pc \in InCountry
    /\ nFail < MaxFails
    /\ nFail' = nFail + 1
    /\ pc' = "hier1"
    /\ UNCHANGED <<otherVars, resolverVars, stoppedAt, state, file, countries, idx, step,
                   dbVars, runs, nCancel, nCrash, lastStop, finished>>

\* "except Exception": a store error inside the try block of the loop.
CountryFailed ==
    /\ pc \in InCountry
    /\ nFail < MaxFails
    /\ nFail' = nFail + 1
    /\ state' = [state EXCEPT !.failed_countries =
                     Append(@, [country |-> countries[idx],
                                error |-> "error"])]
    /\ pc' = "fail_open"
    /\ UNCHANGED <<otherVars, resolverVars, stoppedAt, file, countries, idx, step,
                   dbVars, runs, nCancel, nCrash, lastStop, finished>>

\* save_state, first half: open(STATE_FILE, 'w') truncates the file.
SaveOpen ==
    /\ pc \in {"done_open", "fail_open"}
    /\ file' = [kind |-> "truncated", data |-> EmptyState]
    /\ pc' = IF pc = "done_open" THEN "done_dump" ELSE "fail_dump"
    /\ UNCHANGED <<otherVars, resolverVars, stoppedAt, state, countries, idx, step,
                   dbVars, runs, nCancel, nCrash, nFail, lastStop, finished>>

\* save_state, second half: json.dump and close; the loop moves on.
SaveDump ==
    /\ pc \in {"done_dump", "fail_dump"}
    /\ file' = [kind |-> "valid", data |-> state]
    /\ finished' = IF pc = "done_dump"
                   THEN Append(finished, countries[idx]) ELSE finished
    /\ idx' = idx + 1
    /\ pc' = "loop"
    /\ UNCHANGED <<otherVars, resolverVars, stoppedAt, state, countries, step, dbVars,
                   runs, nCancel, nCrash, nFail, lastStop>>

\* link_admin_divisions_hierarchically, query 1: Admin1 -> Country.
HierAdmin1 ==
    /\ pc = "hier1"
    /\ countryNode' = MergeCountryNodes(countryNode,
                                        SortedSeq(Adm1Nodes(adminDiv)))
    /\ partOfCountry' = MergeCountryEdges(partOfCountry,
                                          SortedSeq(Adm1Nodes(adminDiv)))
    /\ pc' = "hier2"
    /\ UNCHANGED <<otherVars, resolverVars, stoppedAt, state, file, countries, idx, step,
                   adminDiv, locAdmin1, partOfAdmin, runs, nCancel, nCrash,
                   nFail, lastStop, finished>>

\* query 2: Admin2 -> Admin1.
HierAdmin2 ==
    /\ pc = "hier2"
    /\ partOfAdmin' = MergeAll(partOfAdmin, Hier2Rows(adminDiv))
    /\ pc' = "hier3"
    /\ UNCHANGED <<otherVars, resolverVars, stoppedAt, state, file, countries, idx, step,
                   adminDiv, locAdmin1, countryNode, partOfCountry, runs,
                   nCancel, nCrash, nFail, lastStop, finished>>

\* query 3: Admin3 -> Admin2.
HierAdmin3 ==
    /\ pc = "hier3"
    /\ partOfAdmin' = MergeAll(partOfAdmin, Hier3Rows(adminDiv))
    /\ pc' = "stats"
    /\ UNCHANGED <<otherVars, resolverVars, stoppedAt, state, file, countries, idx, step,
                   adminDiv, locAdmin1, countryNode, partOfCountry, runs,
                   nCancel, nCrash, nFail, lastStop, finished>>

\* print_statistics: four read-only queries; build_all and main return.
PrintStatistics ==
    /\ pc = "stats"
    /\ ProcessGone("done")
    /\ UNCHANGED <<otherVars, resolverVars, file, dbVars, runs, nCancel, nCrash,
                   nFail, finished>>

\* SIGINT: KeyboardInterrupt is not an Exception, so the loop's handler
\* does not catch it; main prints "Progress is saved" and returns.  A file
\* open for writing is closed as it is.
Cancel ==
    /\ pc # "stopped"
    /\ nCancel < MaxCancels
    /\ nCancel' = nCancel + 1
    /\ ProcessGone("sigint")
    /\ UNCHANGED <<otherVars, resolverVars, file, dbVars, runs, nCrash, nFail, finished>>

\* The process is killed or the machine stops.
Crash ==
    /\ pc # "stopped"
    /\ nCrash < MaxCrashes
    /\ nCrash' = nCrash + 1
    /\ ProcessGone("crash")
    /\ UNCHANGED <<otherVars, resolverVars, file, dbVars, runs, nCancel, nFail,
                   finished>>

\* A store error outside the loop's try block: main re-raises it.
OuterError ==
    /\ pc \in OuterPcs
    /\ nFail < MaxFails
    /\ nFail' = nFail + 1
    /\ ProcessGone("error")
    /\ UNCHANGED <<otherVars, resolverVars, file, dbVars, runs, nCancel, nCrash,
                   finished>>

Next ==
    \/ Start
    \/ GetCountryList
    \/ LoopHead
    \/ CreateAdminDivisionsBatch
    \/ CreateAdminDivisionsReturn
    \/ LinkBatch
    \/ MarkCompleted
    \/ CountryFailed
    \/ SaveOpen
    \/ SaveDump
    \/ HierAdmin1
    \/ HierAdmin2
    \/ HierAdmin3
    \/ PrintStatistics
    \/ Cancel
    \/ Crash
    \/ OuterError

AdminInit ==
    /\ pc = "stopped"
    /\ state = EmptyState
    /\ file = NoFile
    /\ countries = <<>>
    /\ idx = 0
    /\ step = 0
    /\ adminDiv = EmptyBag
    /\ locAdmin1 = EmptyBag
    /\ countryNode = EmptyBag
    /\ partOfCountry = EmptyBag
    /\ partOfAdmin = EmptyBag
    /\ runs = 0
    /\ nCancel = 0
    /\ nCrash = 0
    /\ nFail = 0
    /\ lastStop = "none"
    /\ finished = <<>>
    /\ stoppedAt = "stopped"

ResolverIdle ==
    /\ world = {}
    /\ rel = {}
    /\ rpc = "idle"
    /\ rseen = {}
    /\ rcountries = <<>>
    /\ ridx = 0
    /\ rbatches = 0
    /\ rfetched = <<>>
    /\ rwrites = <<>>
    /\ gpc = "idle"
    /\ gcountries = <<>>
    /\ gidx = 0
    /\ gwrites = <<>>
    /\ rruns = 0
    /\ rfailed = {}
    /\ rlast = "none"

LinkerIdle ==
    /\ a3store = {}
    /\ locAdmin3 = {}
    /\ partOf43 = {}
    /\ a3pc = "idle"
    /\ a3countries = <<>>
    /\ a3idx = 0
    /\ a3total = 0
    /\ a3skip = 0
    /\ a3runs = 0
    /\ a3last = "none"

FilterIdle ==
    /\ finput = <<>>
    /\ fkind = "none"
    /\ fpc = "idle"
    /\ fpos = 0
    /\ fbuf = <<>>
    /\ fout = <<>>
    /\ ferrors = 0
    /\ ftotal = 0
    /\ fwith = 0
    /\ fmeta = FALSE
    /\ fprev = [done |-> FALSE, out |-> <<>>]
    /\ fruns = 0

GazIdle ==
    /\ gzinput = <<>>
    /\ gzkind = "none"
    /\ gzpc = "idle"
    /\ gzpos = 0
    /\ gzbatch = <<>>
    /\ gzsent = {}
    /\ gzstore = {}
    /\ gzskipped = 0

WdlIdle ==
    /\ wdinput = <<>>
    /\ wdkind = "none"
    /\ wdpc = "idle"
    /\ wdpos = 0
    /\ wdbatch = <<>>
    /\ wdseen = <<>>
    /\ wdstore = {}
    /\ wdstats = [fixed_swapped |-> 0, skipped_invalid |-> 0, skipped_missing |-> 0]
    /\ wdcount = 0

FamIdle ==
    /\ faminput = {}
    /\ famparents = {}
    /\ famnodes = {}
    /\ fampc = "idle"
    /\ famlist = <<>>
    /\ famplist = <<>>
    /\ famidx = 0
    /\ famedges = {}
    /\ famruns = 0

LoadersIdle == GazIdle /\ WdlIdle /\ FamIdle

Init == AdminInit /\ ResolverIdle /\ LinkerIdle /\ FilterIdle /\ LoadersIdle

Spec == Init /\ [][Next]_vars

----------------------------------------------------------------------------
(* What an uninterrupted, error-free run of the builder leaves in the       *)
(* store, stated from the Cypher of each write rather than from its         *)
(* batches.                                                                 *)

AdminPlaces ==
    {p \in Places : p.featureClass = "A"
                    /\ p.featureCode \in AdminFeatureCodes}

TerminalAdminDiv == SetToBag({p.geonameId : p \in AdminPlaces})

\* The non-admin Places a country's strategy visits.
Visited(c) ==
    {p \in Places :
        /\ p.countryCode = c
        /\ p.featureClass # "A"
        /\ p.admin1Code # NULL
        /\ (Strategy(c) = "ultra" => p.admin2Code # NULL)}

TerminalLocAdmin1 ==
    SetToBag({<<pa[1].geonameId, pa[2].geonameId>> :
        pa \in {x \in Places \X AdminPlaces :
            /\ x[1] \in Visited(x[1].countryCode)
            /\ x[2].featureCode = "ADM1"
            /\ x[2].countryCode = x[1].countryCode
            /\ x[2].admin1Code = x[1].admin1Code}})

TerminalPartOfCountry ==
    SetToBag({<<a.geonameId, a.countryCode>> :
        a \in {x \in AdminPlaces : x.featureCode = "ADM1"}})

TerminalPartOfAdmin ==
    SetToBag({<<aa[1].geonameId, aa[2].geonameId>> :
        aa \in {x \in AdminPlaces \X AdminPlaces :
            /\ x[1].countryCode = x[2].countryCode
            /\ x[1].admin1Code = x[2].admin1Code
            /\ \/ /\ x[1].featureCode = "ADM2" /\ x[1].admin1Code # NULL
                  /\ x[2].featureCode = "ADM1"
               \/ /\ x[1].featureCode = "ADM3" /\ x[1].admin2Code # NULL
                  /\ x[2].featureCode = "ADM2"
                  /\ x[1].admin2Code = x[2].admin2Code}})

NoCopies(bag) == \A e \in BagToSet(bag) : CopiesIn(e, bag) <= 1

----------------------------------------------------------------------------
(* Claims about the Admin Hierarchy Builder (specification Spec)            *)

\* C1 (as stated): right after get_country_list of a started run, the
\* worklist contains no country of completed_countries and no country
\* recorded in failed_countries of the progress file that was loaded.
C1_RestartSkipsCompletedAndFailed ==
    (pc = "loop" /\ idx = 1) =>
        \A i \in DOMAIN countries :
            /\ countries[i] \notin Range(state.completed_countries)
            /\ countries[i] \notin FailedNames(state)

\* C2 (as stated): after a crash the progress file is either absent or a
\* complete, parsable state; it is never left truncated.
C2_CrashNeverTruncates ==
    lastStop = "crash" => file.kind \in {"absent", "valid"}

\* A restart that ended in load_state: json.load raised on a truncated
\* progress file before the builder was constructed.
RestartDiedInLoadState ==
    pc = "stopped" /\ lastStop = "error" /\ stoppedAt = "stopped"

\* C3 (as stated): a restart after a SIGINT between two store batches never
\* ends in load_state, and a run that ends normally, with any number of
\* SIGINTs and restarts before it and no store error, leaves exactly the
\* AdminDivision nodes, LOCATED_IN_ADMIN1 edges and PART_OF edges of an
\* uninterrupted run.  Every position of the builder lies between two
\* store batches, the two inside save_state included.
C3_CancelResumeSameTerminal ==
    /\ (nCrash = 0 /\ nFail = 0) => ~RestartDiedInLoadState
    /\ (pc = "stopped" /\ lastStop = "done" /\ nFail = 0) =>
           /\ adminDiv = TerminalAdminDiv
           /\ locAdmin1 = TerminalLocAdmin1
           /\ partOfCountry = TerminalPartOfCountry
           /\ partOfAdmin = TerminalPartOfAdmin

\* The part of C3 the code does deliver: a SIGINT anywhere except inside
\* save_state leaves a progress file the restart can load, and a run that
\* ends normally without a store error leaves the terminal store.
CancelOutsideSaveResumes ==
    /\ (lastStop = "sigint" /\ stoppedAt \notin {"done_dump", "fail_dump"}) =>
           file.kind # "truncated"
    /\ (pc = "stopped" /\ lastStop = "done" /\ nFail = 0) =>
           /\ adminDiv = TerminalAdminDiv
           /\ locAdmin1 = TerminalLocAdmin1
           /\ partOfCountry = TerminalPartOfCountry
           /\ partOfAdmin = TerminalPartOfAdmin

\* C8: no AdminDivision node and no LOCATED_IN_ADMIN1 or PART_OF edge
\* ever exists twice, whatever runs, failures and re-runs came before.
C8_NoDuplicateNodesOrEdges ==
    /\ NoCopies(adminDiv)
    /\ NoCopies(locAdmin1)
    /\ NoCopies(partOfCountry)
    /\ NoCopies(partOfAdmin)

\* C8 witness: a re-run has completed over a store that an earlier, failed
\* run had already written to.
C8_Witness ==
    /\ pc = "stopped" /\ lastStop = "done" /\ runs >= 2 /\ nFail >= 1
    /\ Range(finished) = Range(CountryOrder)
    /\ locAdmin1 # EmptyBag /\ partOfAdmin # EmptyBag

\* C9 (as stated): after a SIGINT the progress file lists as completed
\* exactly the countries whose loop iteration had finished.
C9_CancelLeavesFinishedOnDisk ==
    lastStop = "sigint" =>
        /\ file.kind # "truncated"
        /\ LoadState(file).completed_countries = finished

\* The part of C9 the code does deliver: a progress file that is not
\* truncated lists exactly the finished countries.
ParsableFileListsFinished ==
    file.kind # "truncated" =>
        LoadState(file).completed_countries = finished

\* C11: a country is marked failed only after a failed batch and its
\* failed retry with the batch halved, so every entry of failed_countries
\* accounts for two store errors.
C11_FailedOnlyAfterRetry ==
    2 * Len(state.failed_countries) <= nFail

\* C12: an error in one country is recorded in failed_countries, the loop
\* goes through the whole worklist all the same, and a finished run has
\* dealt with every country and has run the PART_OF linking step.
C12_FailureIsRecordedAndSkipped ==
    /\ pc \in {"fail_open", "fail_dump"} =>
           countries[idx] \in FailedNames(state)
    /\ pc \in {"hier1", "hier2", "hier3", "stats"} =>
           \A i \in DOMAIN countries :
               countries[i] \in Range(state.completed_countries)
                                    \cup FailedNames(state)
    /\ (pc = "stopped" /\ lastStop = "done") =>
           /\ file.kind = "valid"
           /\ \A c \in Range(CountryOrder) :
                  c \in Range(LoadState(file).completed_countries)
                            \cup FailedNames(LoadState(file))
           /\ Range(Hier2Rows(adminDiv)) \cup Range(Hier3Rows(adminDiv))
                  \subseteq BagToSet(partOfAdmin)
           /\ \A a \in Adm1Nodes(adminDiv) :
                  \E e \in BagToSet(partOfCountry) : e[1] = a

\* C12 witness: one run in which AD failed, CA and US were completed after
\* it, and the PART_OF step has run.
C12_Witness ==
    /\ pc = "stopped" /\ lastStop = "done" /\ runs = 1
    /\ FailedNames(LoadState(file)) = {"AD"}
    /\ LoadState(file).completed_countries = <<"CA", "US">>
    /\ partOfAdmin # EmptyBag

\* Exit status of the process for each way main ends: a normal return and
\* the handled KeyboardInterrupt give 0, an exception that leaves main 1.
ExitCode(how) ==
    CASE how = "done" -> 0
      [] how = "sigint" -> 0
      [] how = "error" -> 1
      [] OTHER -> 137

\* C15: exit code 0 when every country succeeded, 2 when at least one
\* country is in the failed list, 1 on an unrecoverable error, 0 after a
\* SIGINT.
C15_ExitCodes ==
    (pc = "stopped" /\ lastStop \in {"done", "sigint", "error"}) =>
        ExitCode(lastStop) =
            CASE lastStop = "error" -> 1
              [] lastStop = "sigint" -> 0
              [] lastStop = "done" ->
                    IF FailedNames(LoadState(file)) = {} THEN 0 ELSE 2

\* Every (Place, ADM1 division) pair of the store: a non-admin Place with
\* an admin1 code and the ADM1 division of its country with that code.
AllLocAdmin1 ==
    SetToBag({<<pa[1].geonameId, pa[2].geonameId>> :
        pa \in {x \in Places \X AdminPlaces :
            /\ x[1].featureClass # "A"
            /\ x[1].admin1Code # NULL
            /\ x[2].featureCode = "ADM1"
            /\ x[2].countryCode = x[1].countryCode
            /\ x[2].admin1Code = x[1].admin1Code}})

\* C16: whatever strategy each country gets, an error-free finished build
\* leaves exactly one LOCATED_IN_ADMIN1 edge for every non-admin Place
\* with an admin1 code that has a matching ADM1 division.
C16_StrategyIndependentEdges ==
    (pc = "stopped" /\ lastStop = "done" /\ nFail = 0) =>
        locAdmin1 = AllLocAdmin1

----------------------------------------------------------------------------
(* Spatial Resolver: values, strings and the store                          *)
(*                                                                          *)
(* A Python / Cypher string is a sequence of one-character strings, so      *)
(* that lower(), split(), "in" and toInteger() are computed, and a          *)
(* property value carries its type, so that a STRING never equals an       *)
(* INTEGER.  Distances are in metres (distance_km * 1000), scores and       *)
(* confidences in millionths, stored confidences in thousandths             *)
(* (round(confidence, 3)).                                                  *)

MaxResolverRuns == 2
MaxBatches == 3
PhaseBBatch == 2
PhaseALimit == 2
MaxResolverFails == 1

UpperAlpha == <<"A","B","C","D","E","F","G","H","I","J","K","L","M",
                "N","O","P","Q","R","S","T","U","V","W","X","Y","Z">>
LowerAlpha == <<"a","b","c","d","e","f","g","h","i","j","k","l","m",
                "n","o","p","q","r","s","t","u","v","w","x","y","z">>
Digits == <<"0","1","2","3","4","5","6","7","8","9">>

\* str.lower() / str.upper() on ASCII text.
LowerChar(ch) ==
    IF \E i \in 1..26 : UpperAlpha[i] = ch
    THEN LowerAlpha[CHOOSE i \in 1..26 : UpperAlpha[i] = ch] ELSE ch
UpperChar(ch) ==
    IF \E i \in 1..26 : LowerAlpha[i] = ch
    THEN UpperAlpha[CHOOSE i \in 1..26 : LowerAlpha[i] = ch] ELSE ch
Lower(str) == [i \in DOMAIN str |-> LowerChar(str[i])]
Upper(str) == [i \in DOMAIN str |-> UpperChar(str[i])]

\* Python "a in b" on strings.
IsSubstring(a, b) ==
    \E i \in 0..(Len(b) - Len(a)) : SubSeq(b, i + 1, i + Len(a)) = a

\* str.startswith
StartsWith(str, pre) ==
    Len(pre) <= Len(str) /\ SubSeq(str, 1, Len(pre)) = pre

\* set(str.split()): the set of whitespace-separated words.
RECURSIVE SplitFrom(_, _, _)
SplitFrom(str, i, word) ==
    IF i > Len(str)
    THEN (IF word = <<>> THEN {} ELSE {word})
    ELSE IF str[i] = " "
         THEN (IF word = <<>> THEN {} ELSE {word})
                  \cup SplitFrom(str, i + 1, <<>>)
         ELSE SplitFrom(str, i + 1, Append(word, str[i]))
WordSet(str) == SplitFrom(str, 1, <<>>)

\* Typed property values.
NullVal == [t |-> "NULL", v |-> 0]
StrVal(str) == [t |-> "STRING", v |-> str]
IntVal(n) == [t |-> "INTEGER", v |-> n]

DigitOf(ch) == (CHOOSE i \in 1..10 : Digits[i] = ch) - 1
IsDigit(ch) == \E i \in 1..10 : Digits[i] = ch

RECURSIVE ParseDigits(_, _)
ParseDigits(str, acc) ==
    IF str = <<>> THEN acc
    ELSE ParseDigits(Tail(str), acc * 10 + DigitOf(Head(str)))

\* Cypher toInteger(): the integer a digit string denotes, else null.
ToInteger(val) ==
    IF val.t = "INTEGER" THEN val
    ELSE IF val.t = "STRING" /\ val.v # <<>>
            /\ \A i \in DOMAIN val.v : IsDigit(val.v[i])
    THEN IntVal(ParseDigits(val.v, 0))
    ELSE NullVal

\* Cypher "=": null equals nothing, and values of different types differ.
CypherEq(x, y) == x.t # "NULL" /\ x.t = y.t /\ x.v = y.v

\* Place nodes seen by the resolver.
GeoPlace(id, name, code) ==
    [geonameId |-> id, name |-> name, featureCode |-> code]

GeoPlaces ==
    { GeoPlace(6167865, <<"T", "o", "r", "o", "n", "t", "o">>, <<"P", "P", "L", "A">>),
      GeoPlace(9999999, <<"C", "N", " ", "T", "o", "w", "e", "r">>, <<"T", "O", "W", "R">>),
      GeoPlace(6000001, <<"Y", "o", "r", "k">>, <<"P", "P", "L">>),
      GeoPlace(6000002, <<"Y", "o", "r", "k">>, <<"A", "D", "M", "3">>),
      GeoPlace(5000001, <<"M", "a", "i", "t", "l", "a", "n", "d">>, <<"P", "P", "L">>),
      GeoPlace(5000002, <<"S", "h", "e", "e", "t", " ", "H", "a", "r", "b", "o", "u", "r">>, <<"P", "P", "L">>),
      GeoPlace(5000003, <<"H", "a", "l", "i", "f", "a", "x">>, <<"P", "P", "L", "X">>),
      GeoPlace(5000004, <<"H", "a", "l", "i", "f", "a", "x", " ", "H", "a", "r", "b", "o", "u", "r">>,
               <<"H", "B", "R">>) }

GeoPlaceOf(id) == CHOOSE g \in GeoPlaces : g.geonameId = id

\* WikidataPlace nodes the store may hold, in node order.  near maps the
\* geonameId of every Place within the bounding box to its haversine
\* distance in metres.
WikidataCatalog ==
    << [qid |-> "Q172", name |-> <<"T", "o", "r", "o", "n", "t", "o">>, countryQid |-> "Q16",
        hasCoords |-> TRUE, geonamesId |-> StrVal(<<"6", "1", "6", "7", "8", "6", "5">>),
        instanceType |-> "Q515",
        near |-> (6167865 :> 5300) @@ (9999999 :> 1200)],
       [qid |-> "Q2", name |-> <<"Y", "o", "r", "k">>, countryQid |-> "Q16",
        hasCoords |-> TRUE, geonamesId |-> NullVal,
        instanceType |-> "Q515",
        near |-> (6000001 :> 50) @@ (6000002 :> 400)],
       [qid |-> "Q3", name |-> <<"M", "a", "i", "t", "l", "a", "n", "d">>, countryQid |-> "Q408",
        hasCoords |-> TRUE, geonamesId |-> NullVal,
        instanceType |-> "Q3957",
        near |-> (5000001 :> 7000) @@ (5000002 :> 8000)
                    @@ (5000003 :> 12000)],
       [qid |-> "Q4", name |-> <<"H", "a", "l", "i", "f", "a", "x", " ", "H", "a", "r", "b", "o", "u", "r">>,
        countryQid |-> "Q408",
        hasCoords |-> TRUE, geonamesId |-> StrVal(<<"5", "0", "0", "0", "0", "0", "9">>),
        instanceType |-> "Q283202",
        near |-> (5000003 :> 3000) @@ (5000004 :> 6000)
                    @@ (5000002 :> 9000)],
       [qid |-> "Q5", name |-> <<"Y", "o", "r", "k">>, countryQid |-> "Q16",
        hasCoords |-> FALSE, geonamesId |-> StrVal(<<"6", "0", "0", "0", "0", "0", "1">>),
        instanceType |-> "Q515",
        near |-> (6000001 :> 50)] >>

CountryQidOrder == <<"Q16", "Q408">>

\* The WikidataPlace nodes of the store, in node order.
WikidataPlaces(w) ==
    SelectSeq(WikidataCatalog,
              LAMBDA r : \E i \in w : WikidataCatalog[i] = r)

WPOf(qid) ==
    WikidataCatalog[CHOOSE i \in DOMAIN WikidataCatalog :
                        WikidataCatalog[i].qid = qid]

----------------------------------------------------------------------------
(* Spatial Resolver: candidate query and scoring                            *)

MaxDistanceM == 10000
OptCandidateLimit == 5
GlobalCandidateLimit == 10
OptMinConfidence == 700000
GlobalMinConfidence == 500000
SameAsConfidence == 850000
SameAsDistanceM == 1000
NearDistanceM == 5000
WikidataPriority == 70

RECURSIVE NearestFirst(_, _)
NearestFirst(ids, wp) ==
    IF ids = {} THEN <<>>
    ELSE LET m == CHOOSE i \in ids : \A j \in ids : wp.near[i] <= wp.near[j]
         IN <<m>> \o NearestFirst(ids \ {m}, wp)

\* find_nearby_with_bbox / find_nearby_geonames_places: the Places within
\* the distance threshold, nearest first, at most limit of them.
FindNearby(wp, limit) ==
    LET within == {id \in DOMAIN wp.near : wp.near[id] <= MaxDistanceM}
        rows == NearestFirst(within, wp)
    IN [i \in 1..Min(limit, Len(rows)) |->
            [geonameId |-> rows[i],
             name |-> GeoPlaceOf(rows[i]).name,
             featureCode |-> GeoPlaceOf(rows[i]).featureCode,
             distance |-> wp.near[rows[i]]]]

find_nearby_with_bbox(wp) == FindNearby(wp, OptCandidateLimit)

find_nearby_geonames_places(wp) == FindNearby(wp, GlobalCandidateLimit)

----------------------------------------------------------------------------
(* Python floats.  The scores are IEEE 754 doubles: every operation gives   *)
(* the double nearest to its exact result, ties going to the even mantissa. *)
(* A double in [0, 2) is held exactly, as digits to the base FloatBase:     *)
(* digit 1 is the integer part, digit i > 1 has weight FloatBase^-(i-1).    *)
(* Binary position 0 is the integer part, position p > 0 has weight 2^-p.   *)

\* Binary digits per digit of the representation, and the number of digits;
\* the exact product of two scores needs fewer.
LimbBits == 10
FloatLimbs == 16
\* Significant binary digits of a double.
MantissaBits == 53

FloatBase == 2 ^ LimbBits

LastPosition == (FloatLimbs - 1) * LimbBits

FloatZero == [i \in 1..FloatLimbs |-> 0]

FloatOne == [i \in 1..FloatLimbs |-> IF i = 1 THEN 1 ELSE 0]

\* The digit that holds binary position p > 0, and the weight of p in it.
LimbOf(p) == 2 + (p - 1) \div LimbBits

WeightIn(p) == 2 ^ (LimbBits - 1 - ((p - 1) % LimbBits))

Bit(a, p) == IF p = 0 THEN a[1] % 2 ELSE (a[LimbOf(p)] \div WeightIn(p)) % 2

\* The digits i.. of r / d, where r < d is the remainder carried into digit
\* i; sticky tells that digits follow after the last one.
RECURSIVE Quotient(_, _, _)
Quotient(r, d, i) ==
    IF i > FloatLimbs THEN [digits |-> <<>>, sticky |-> r # 0]
    ELSE LET rest == Quotient((r * FloatBase) % d, d, i + 1)
         IN [digits |-> <<(r * FloatBase) \div d>> \o rest.digits,
             sticky |-> rest.sticky]

\* The digits i.. of a + b, and the carry out of digit i.
RECURSIVE SumFrom(_, _, _)
SumFrom(a, b, i) ==
    IF i > FloatLimbs THEN [digits |-> <<>>, carry |-> 0]
    ELSE LET rest == SumFrom(a, b, i + 1)
             s == a[i] + b[i] + rest.carry
         IN [digits |-> <<s % FloatBase>> \o rest.digits,
             carry |-> s \div FloatBase]

Sum(a, b) == SumFrom(a, b, 1).digits

\* Round to nearest, ties to even, at MantissaBits significant binary digits.
RoundToDouble(a, sticky) ==
    IF \A i \in 1..FloatLimbs : a[i] = 0 THEN a
    ELSE LET lead == CHOOSE p \in 0..LastPosition :
                         Bit(a, p) = 1 /\ \A j \in 0..(p - 1) : Bit(a, j) = 0
             last == lead + MantissaBits - 1
         IN IF last >= LastPosition THEN a
            ELSE LET rest == sticky \/ \E j \in (last + 2)..LastPosition :
                                          Bit(a, j) = 1
                     up == Bit(a, last + 1) = 1 /\ (rest \/ Bit(a, last) = 1)
                     kept == [i \in 1..FloatLimbs |->
                                 IF i < LimbOf(last) THEN a[i]
                                 ELSE IF i > LimbOf(last) THEN 0
                                 ELSE a[i] - (a[i] % WeightIn(last))]
                     ulp == [i \in 1..FloatLimbs |->
                                IF i = LimbOf(last) THEN WeightIn(last) ELSE 0]
                 IN IF up THEN Sum(kept, ulp) ELSE kept

\* The sum of the products a[i] * b[k + 1 - i]: what a * b holds at the
\* weight of digit k, before the carries.
RECURSIVE Column(_, _, _, _)
Column(a, b, k, i) ==
    IF i > FloatLimbs \/ i > k THEN 0
    ELSE (IF k + 1 - i <= FloatLimbs THEN a[i] * b[k + 1 - i] ELSE 0)
             + Column(a, b, k, i + 1)

\* The digits k.. of the exact product, and the carry out of digit k.
RECURSIVE ProductFrom(_, _, _)
ProductFrom(a, b, k) ==
    IF k > FloatLimbs THEN [digits |-> <<>>, carry |-> 0]
    ELSE LET rest == ProductFrom(a, b, k + 1)
             s == Column(a, b, k, 1) + rest.carry
         IN [digits |-> <<s % FloatBase>> \o rest.digits,
             carry |-> s \div FloatBase]

\* n / d of two integers with n < 2d, and the decimal literal n/d.
FloatDiv(n, d) ==
    LET q == Quotient(n % d, d, 2)
    IN RoundToDouble(<<n \div d>> \o q.digits, q.sticky)

FloatMul(a, b) ==
    RoundToDouble(ProductFrom(a, b, 1).digits,
                  \E k \in (FloatLimbs + 1)..(2 * FloatLimbs) :
                      Column(a, b, k, 1) # 0)

FloatAdd(a, b) == RoundToDouble(Sum(a, b), FALSE)

\* min(a, 1.0)
FloatMin1(a) == IF a[1] >= 1 THEN FloatOne ELSE a

\* The sign of a - n / d, for n <= d.
FloatCompare(a, n, d) ==
    LET q == Quotient(n % d, d, 2)
        b == <<n \div d>> \o q.digits
        differ == {i \in 1..FloatLimbs : a[i] # b[i]}
    IN IF differ = {} THEN (IF q.sticky THEN -1 ELSE 0)
       ELSE LET first == CHOOSE i \in differ : \A j \in differ : i <= j
            IN IF a[first] > b[first] THEN 1 ELSE -1

\* Distance component, in millionths; d in metres.
DistanceScore(d) ==
    IF d <= 100 THEN 1000000
    ELSE IF d <= 1000 THEN 900000
    ELSE IF d <= 5000 THEN 700000
    ELSE IF d <= 10000 THEN 500000
    ELSE 300000

\* Name similarity component, in millionths.
NameScore(wdName, gnName) ==
    LET wd == Lower(wdName)
        gn == Lower(gnName)
        wdWords == WordSet(wd)
        gnWords == WordSet(gn)
        overlap == Cardinality(wdWords \cap gnWords)
    IN IF wd = gn THEN 1000000
       ELSE IF IsSubstring(wd, gn) \/ IsSubstring(gn, wd) THEN 800000
       ELSE IF overlap > 0
            THEN (500000 * overlap)
                     \div Max(Cardinality(wdWords), Cardinality(gnWords))
            ELSE 0

\* The components and the sum as the floats the code computes.
DistanceFloat(d) == FloatDiv(DistanceScore(d), 1000000)

NameFloat(wdName, gnName) ==
    LET wd == Lower(wdName)
        gn == Lower(gnName)
        wdWords == WordSet(wd)
        gnWords == WordSet(gn)
        overlap == Cardinality(wdWords \cap gnWords)
    IN IF wd = gn THEN FloatOne
       ELSE IF IsSubstring(wd, gn) \/ IsSubstring(gn, wd) THEN FloatDiv(4, 5)
       ELSE IF overlap > 0
            THEN FloatMul(FloatDiv(1, 2),
                          FloatDiv(overlap,
                                   Max(Cardinality(wdWords),
                                       Cardinality(gnWords))))
            ELSE FloatZero

\* 30% distance, 50% name, 20% type, capped at 1.0.
Weighted(ds, ns, ts) == Min((30 * ds + 50 * ns + 20 * ts) \div 100, 1000000)

\* (distance_score * 0.30) + (name_score * 0.50) + (type_score * 0.20)
WeightedFloat(ds, ns, ts) ==
    FloatMin1(FloatAdd(FloatAdd(FloatMul(ds, FloatDiv(3, 10)),
                                FloatMul(ns, FloatDiv(1, 2))),
                       FloatMul(ts, FloatDiv(1, 5))))

\* OptimizedSpatialLinker.calculate_confidence: type_score is fixed at 0.7.
OptConfidence(wp, gn) ==
    Weighted(DistanceScore(gn.distance), NameScore(wp.name, gn.name), 700000)

OptConfidenceFloat(wp, gn) ==
    WeightedFloat(DistanceFloat(gn.distance), NameFloat(wp.name, gn.name),
                  FloatDiv(7, 10))

\* WikidataPlaceLinker.get_entity_priority for a GeoNames place.
GeoPriority(featureCode) ==
    LET fc == Upper(featureCode)
    IN IF StartsWith(fc, <<"A", "D", "M">>) THEN 85
       ELSE IF StartsWith(fc, <<"P", "P", "L", "A">>) THEN 80
       ELSE IF fc = <<"P", "P", "L">> THEN 70
       ELSE IF fc = <<"A", "R", "E", "A">> THEN 75
       ELSE IF fc = <<"P", "P", "L", "X">> THEN 40
       ELSE 50

\* WikidataPlaceLinker.get_entity_priority(place, is_wikidata): every
\* WikidataPlace gets the default, whatever its instanceType.
get_entity_priority(place, is_wikidata) ==
    IF is_wikidata THEN WikidataPriority ELSE GeoPriority(place.featureCode)

\* Entity type component of the global linker, in millionths.
TypeScore(wdPriority, gnPriority) ==
    LET avg == (wdPriority + gnPriority) * 5000
    IN IF wdPriority >= 70 /\ gnPriority >= 70
       THEN Min((avg * 12) \div 10, 1000000)
       ELSE avg

\* ((wd_priority + gn_priority) / 2) / 100.0, times 1.2 and capped.
TypeFloat(wdPriority, gnPriority) ==
    LET avg == FloatDiv(wdPriority + gnPriority, 200)
    IN IF wdPriority >= 70 /\ gnPriority >= 70
       THEN FloatMin1(FloatMul(avg, FloatDiv(6, 5)))
       ELSE avg

\* WikidataPlaceLinker.calculate_confidence.
GlobalConfidence(wp, gn) ==
    Weighted(DistanceScore(gn.distance), NameScore(wp.name, gn.name),
             TypeScore(get_entity_priority(wp, TRUE),
                       get_entity_priority(gn, FALSE)))

GlobalConfidenceFloat(wp, gn) ==
    WeightedFloat(DistanceFloat(gn.distance), NameFloat(wp.name, gn.name),
                  TypeFloat(get_entity_priority(wp, TRUE),
                            get_entity_priority(gn, FALSE)))

\* round(confidence, 3), in thousandths: the multiple of 0.001 nearest to
\* the float f.  c is the exact sum in millionths; the float is off it by
\* less than a millionth, so it decides only when c lies half-way between
\* two multiples, and a float that lies half-way itself goes to the even
\* one.
Round3(c, f) ==
    LET q == c \div 1000
    IN IF c % 1000 < 500 THEN q
       ELSE IF c % 1000 > 500 THEN q + 1
       ELSE LET side == FloatCompare(f, c, 1000000)
            IN IF side < 0 THEN q
               ELSE IF side > 0 THEN q + 1
               ELSE IF q % 2 = 0 THEN q ELSE q + 1

----------------------------------------------------------------------------
(* Spatial Resolver: edges                                                  *)

Edge(type, src, dst, dist, conf, evidence, method, date) ==
    [type |-> type, src |-> src, dst |-> dst, distance |-> dist,
     confidence |-> conf, evidence |-> evidence, matchMethod |-> method,
     linkedDate |-> date]

\* The keys MATCH finds the two ends of an edge by.
StoreQids(w) == {WikidataCatalog[i].qid : i \in w}

PlaceIds == {g.geonameId : g \in GeoPlaces}

\* MERGE (wp)-[r:TYPE]->(p) SET r.x = ...: one edge per (type, src, dst).
MergeEdge(edges, e) ==
    {x \in edges : ~(x.type = e.type /\ x.src = e.src /\ x.dst = e.dst)}
        \cup {e}

RECURSIVE MergeEdges(_, _)
MergeEdges(edges, links) ==
    IF links = <<>> THEN edges
    ELSE MergeEdges(MergeEdge(edges, Head(links)), Tail(links))

HasEdge(edges, qid, types) ==
    \E e \in edges : e.src = qid /\ e.type \in types

RECURSIVE Flatten(_)
Flatten(seqs) ==
    IF seqs = <<>> THEN <<>> ELSE Head(seqs) \o Flatten(Tail(seqs))

GlobalCountryLimit == 2

\* batch_size of link_by_geography_for_country (100 in the code): the
\* links gathered so far are written when there are at least this many.
GlobalLinkBatch == 2

TypeOrder == <<"SAME_AS", "NEAR", "LOCATED_IN">>

\* A plausible bug: MERGE (p:Place {geonameId: toInteger(wp.geonamesId)})
\* instead of MATCH: the edge is written to the id the WikidataPlace
\* carries, whether or not a Place with that id exists.
IdLinksByMerge(wp, matches, now) ==
    IF ToInteger(wp.geonamesId).t = "INTEGER"
    THEN << Edge("SAME_AS", wp.qid, ToInteger(wp.geonamesId).v, 0, 1000,
                 "geonames_id_match", NULL, now) >>
    ELSE <<>>

\* The Place nodes whose geonameId satisfies the join test, in id order.
IdMatchLinks(wp, matches, now) ==
    [i \in DOMAIN matches |->
        Edge("SAME_AS", wp.qid, matches[i], 0, 1000, "geonames_id_match",
             NULL, now)]

\* WikidataPlace rows with a geonamesId and no outgoing SAME_AS, cut by
\* "WITH wp LIMIT batch_size"; the CALL subquery runs once.
PhaseARows(w, edges) ==
    SkipLimit(SelectSeq(WikidataPlaces(w),
                        LAMBDA r : /\ r.geonamesId.t # "NULL"
                                   /\ ~HasEdge(edges, r.qid, {"SAME_AS"})),
              0, PhaseALimit)

\* DirectIDLinker.link_by_direct_id_match:
\*   WHERE p.geonameId = toInteger(wp.geonamesId)
link_by_direct_id_match(w, edges, now) ==
    LET rows == PhaseARows(w, edges)
        matches(wp) ==
            SortedSeq({g.geonameId : g \in
                {x \in GeoPlaces : CypherEq(IntVal(x.geonameId),
                                            ToInteger(wp.geonamesId))}})
    IN MergeEdges(edges,
           Flatten([i \in DOMAIN rows |->
                       IdMatchLinks(rows[i], matches(rows[i]), now)]))

\* WikidataPlaceLinker.link_by_geonames_id:
\*   MATCH (p:Place {geonameId: wp.geonamesId})
link_by_geonames_id(w, edges, now) ==
    LET rows == PhaseARows(w, edges)
        matches(wp) ==
            SortedSeq({g.geonameId : g \in
                {x \in GeoPlaces : CypherEq(IntVal(x.geonameId),
                                            wp.geonamesId)}})
    IN MergeEdges(edges,
           Flatten([i \in DOMAIN rows |->
                       IdMatchLinks(rows[i], matches(rows[i]), now)]))

\* OptimizedSpatialLinker.get_unlinked_places_by_country
get_unlinked_places_by_country(w, edges, country, limit) ==
    SkipLimit(SelectSeq(WikidataPlaces(w),
                        LAMBDA r : /\ r.countryQid = country
                                   /\ r.hasCoords
                                   /\ ~HasEdge(edges, r.qid, {"SAME_AS"})),
              0, limit)

\* WikidataPlaceLinker.get_unlinked_wikidata_places_for_country
get_unlinked_wikidata_places_for_country(w, edges, country) ==
    SkipLimit(SelectSeq(WikidataPlaces(w),
                        LAMBDA r : /\ r.countryQid = country
                                   /\ r.hasCoords
                                   /\ ~HasEdge(edges, r.qid,
                                               Range(TypeOrder))),
              0, GlobalCountryLimit)

\* The link link_country_batch appends for one source: the nearest
\* candidate only, if its confidence reaches min_confidence.
OptLinkFor(wp, now) ==
    LET nearby == find_nearby_with_bbox(wp)
    IN IF nearby = <<>> THEN <<>>
       ELSE LET best_match == nearby[1]
                confidence == OptConfidence(wp, best_match)
                rel_type ==
                    IF /\ confidence >= SameAsConfidence
                       /\ best_match.distance <= SameAsDistanceM
                    THEN "SAME_AS"
                    ELSE IF best_match.distance <= NearDistanceM
                    THEN "NEAR"
                    ELSE "LOCATED_IN"
            IN IF confidence >= OptMinConfidence
               THEN << Edge(rel_type, wp.qid, best_match.geonameId,
                            best_match.distance,
                            Round3(confidence,
                                   OptConfidenceFloat(wp, best_match)),
                            IF rel_type = "SAME_AS"
                                THEN "spatial_proximity" ELSE NULL,
                            IF rel_type = "SAME_AS"
                                THEN NULL ELSE "spatial_proximity",
                            now) >>
               ELSE <<>>

\* The links link_by_geography_for_country appends for one source: every
\* candidate whose confidence reaches min_confidence.
GlobalLinksFor(wp, now) ==
    LET nearby == find_nearby_geonames_places(wp)
        wd_priority == get_entity_priority(wp, TRUE)
        link(gn) ==
            LET confidence == GlobalConfidence(wp, gn)
                gn_priority == get_entity_priority(gn, FALSE)
                rel_type ==
                    IF /\ wd_priority < 60
                       /\ gn_priority >= 60
                       /\ gn.distance <= NearDistanceM
                    THEN "LOCATED_IN"
                    ELSE IF /\ confidence >= SameAsConfidence
                            /\ gn.distance <= SameAsDistanceM
                    THEN "SAME_AS"
                    ELSE "NEAR"
            IN IF confidence >= GlobalMinConfidence
               THEN << Edge(rel_type, wp.qid, gn.geonameId, gn.distance,
                            Round3(confidence, GlobalConfidenceFloat(wp, gn)),
                            IF rel_type = "SAME_AS"
                                THEN "geographic_proximity" ELSE NULL,
                            IF rel_type = "SAME_AS"
                                THEN NULL ELSE "geographic_proximity",
                            now) >>
               ELSE <<>>
    IN Flatten([i \in DOMAIN nearby |-> link(nearby[i])])

\* create_links_batch / _create_links_batch: the links are separated by
\* type and one statement is run per type that has links, in TypeOrder.
create_links_batch(links) ==
    SelectSeq([k \in DOMAIN TypeOrder |->
                  SelectSeq(links, LAMBDA l : l.type = TypeOrder[k])],
              LAMBDA statement : statement # <<>>)

\* One write statement, an auto-commit transaction:
\*   UNWIND $links AS link
\*   MATCH (wp:WikidataPlace {qid: ...}) MATCH (p:Place {geonameId: ...})
\*   MERGE (wp)-[r:TYPE]->(p) SET r.x = ..., r.linkedDate = datetime()
\* A link one of whose ends is not in the store yields no row, so nothing
\* is merged for it.
RunStatement(w, edges, links, now) ==
    LET rows == SelectSeq(links, LAMBDA l : /\ l.src \in StoreQids(w)
                                            /\ l.dst \in PlaceIds)
    IN MergeEdges(edges,
                  [i \in DOMAIN rows |-> [rows[i] EXCEPT !.linkedDate = now]])

\* The links of one batch of sources.
OptBatchLinks(places, now) ==
    Flatten([i \in DOMAIN places |-> OptLinkFor(places[i], now)])

\* link_by_geography_for_country: the batches of links in the order they
\* are handed to _create_links_batch.  After each source the links
\* gathered so far (pending) are written if they are batch_size or more;
\* what remains after the last source is written at the end.
RECURSIVE GlobalLinkBatches(_, _, _)
GlobalLinkBatches(places, pending, now) ==
    IF places = <<>>
    THEN IF pending = <<>> THEN <<>> ELSE <<pending>>
    ELSE LET links_batch == pending \o GlobalLinksFor(Head(places), now)
         IN IF Len(links_batch) >= GlobalLinkBatch
            THEN <<links_batch>> \o GlobalLinkBatches(Tail(places), <<>>, now)
            ELSE GlobalLinkBatches(Tail(places), links_batch, now)

\* The write statements of one country, in the order they are run.
GlobalStatements(places) ==
    LET batches == GlobalLinkBatches(places, <<>>, NULL)
    IN Flatten([b \in DOMAIN batches |-> create_links_batch(batches[b])])

\* Number of WikidataPlaces of a country that a worklist query counts.
UnlinkedCount(w, edges, country, types) ==
    Cardinality({i \in w :
        /\ WikidataCatalog[i].countryQid = country
        /\ WikidataCatalog[i].hasCoords
        /\ ~HasEdge(edges, WikidataCatalog[i].qid, types)})

\* Every row order a worklist query may return: the countries with a
\* positive count, ordered by count; ties come in any order.
Worklists(w, edges, types, ascending) ==
    LET cs == {c \in Range(CountryQidOrder) :
                   UnlinkedCount(w, edges, c, types) > 0}
        n == Cardinality(cs)
        cnt(c) == UnlinkedCount(w, edges, c, types)
    IN {s \in [1..n -> cs] :
           /\ \A i, j \in 1..n : i # j => s[i] # s[j]
           /\ \A i, j \in 1..n : i < j =>
                  IF ascending THEN cnt(s[i]) <= cnt(s[j])
                               ELSE cnt(s[i]) >= cnt(s[j])}

\* get_countries_with_unlinked_counts: ORDER BY count ASC
get_countries_with_unlinked_counts(w, edges) ==
    Worklists(w, edges, {"SAME_AS"}, TRUE)

\* get_countries_with_unlinked_places: ORDER BY count DESC
get_countries_with_unlinked_places(w, edges) ==
    Worklists(w, edges, Range(TypeOrder), FALSE)

Qids(rows) == {rows[i].qid : i \in DOMAIN rows}

----------------------------------------------------------------------------
(* Spatial Resolver: the three programs as processes on one store.  Nothing *)
(* in the code keeps two of them from running at the same time: each has   *)
(* its own position, and a step is one statement sent to the store.        *)

\* link_direct_geonames_ids.main: Phase A with the coerced join, one
\* statement.
PhaseADirect ==
    /\ rruns < MaxResolverRuns
    /\ rruns' = rruns + 1
    /\ rel' = link_by_direct_id_match(world, rel, rruns + 1)
    /\ rlast' = "A_direct"
    /\ UNCHANGED <<otherVars, adminVars, world, rfailed, optVars, globalVars>>

\* link_wikidata_places_global.main, phase 1.1: one statement.
GlobalPhaseA ==
    /\ gpc = "idle"
    /\ rruns < MaxResolverRuns
    /\ rruns' = rruns + 1
    /\ rel' = link_by_geonames_id(world, rel, rruns + 1)
    /\ gpc' = "global_list"
    /\ rlast' = "A_global"
    /\ UNCHANGED <<otherVars, adminVars, world, rfailed, optVars, gcountries,
                   gidx, gwrites>>

\* link_all_by_geography: the worklist query.
GlobalGetCountries ==
    /\ gpc = "global_list"
    /\ gcountries' \in get_countries_with_unlinked_places(world, rel)
    /\ gidx' = 1
    /\ gpc' = "global"
    /\ UNCHANGED <<otherVars, adminVars, world, rel, rruns, rfailed, rlast,
                   optVars, gwrites>>

\* link_by_geography_for_country for the next country of the worklist:
\* the query for its unlinked WikidataPlaces.  The candidates and the
\* scores of a source depend on the Place nodes only, so the statements
\* the country will run are known here.
GlobalCountry ==
    /\ gpc = "global"
    /\ gidx <= Len(gcountries)
    /\ gwrites' = GlobalStatements(
                      get_unlinked_wikidata_places_for_country(
                          world, rel, gcountries[gidx]))
    /\ gpc' = "global_write"
    /\ UNCHANGED <<otherVars, adminVars, world, rel, rruns, rfailed, rlast,
                   optVars, gcountries, gidx>>

\* _create_links_batch: the next write statement of the country.
GlobalWrite ==
    /\ gpc = "global_write"
    /\ gwrites # <<>>
    /\ rel' = RunStatement(world, rel, Head(gwrites), rruns)
    /\ gwrites' = Tail(gwrites)
    /\ UNCHANGED <<otherVars, adminVars, world, rruns, rfailed, rlast, optVars,
                   gpc, gcountries, gidx>>

\* link_by_geography_for_country returns: the next country.
GlobalCountryDone ==
    /\ gpc = "global_write"
    /\ gwrites = <<>>
    /\ gidx' = gidx + 1
    /\ gpc' = "global"
    /\ UNCHANGED <<otherVars, adminVars, world, rel, rruns, rfailed, rlast,
                   optVars, gcountries, gwrites>>

\* The worklist is exhausted: statistics, exit 0.
GlobalFinish ==
    /\ gpc = "global"
    /\ gidx > Len(gcountries)
    /\ gpc' = "idle"
    /\ rlast' = "B_global"
    /\ UNCHANGED <<otherVars, adminVars, world, rel, rruns, rfailed, optVars,
                   gcountries, gidx, gwrites>>

\* A store error while a country is processed, in the query or in a write
\* statement: the statement that raised wrote nothing, the statements
\* before it are committed.  Nothing catches the error before main, which
\* prints it and re-raises.
GlobalFail ==
    /\ gpc \in {"global", "global_write"}
    /\ gidx <= Len(gcountries)
    /\ Cardinality(rfailed) < MaxResolverFails
    /\ gcountries[gidx] \notin rfailed
    /\ rfailed' = rfailed \cup {gcountries[gidx]}
    /\ gpc' = "idle"
    /\ gwrites' = <<>>
    /\ rlast' = "B_global_error"
    /\ UNCHANGED <<otherVars, adminVars, world, rel, rruns, optVars, gcountries,
                   gidx>>

\* link_spatial_optimized.main -> link_all_optimized: the worklist query.
OptStart ==
    /\ rpc = "idle"
    /\ rruns < MaxResolverRuns
    /\ rruns' = rruns + 1
    /\ rcountries' \in get_countries_with_unlinked_counts(world, rel)
    /\ ridx' = 1
    /\ rbatches' = 0
    /\ rseen' = {}
    /\ rfetched' = <<>>
    /\ rpc' = "opt"
    /\ rlast' = "running"
    /\ UNCHANGED <<otherVars, adminVars, world, rel, rfailed, rwrites, globalVars>>

\* One pass of the "while True" loop, link_country_batch: the query for
\* the first batch_size unlinked WikidataPlaces of the country.  The
\* candidates and the scores depend on the Place nodes only, so the
\* statements create_links_batch will run are known here.
OptBatch ==
    /\ rpc = "opt"
    /\ ridx <= Len(rcountries)
    /\ rbatches < MaxBatches
    /\ LET places == get_unlinked_places_by_country(
                         world, rel, rcountries[ridx], PhaseBBatch)
       IN /\ rfetched' = places
          /\ rwrites' = create_links_batch(OptBatchLinks(places, NULL))
          /\ rseen' = rseen \cup Qids(places)
    /\ rpc' = "opt_write"
    /\ UNCHANGED <<otherVars, adminVars, world, rel, rruns, rfailed, rlast,
                   rcountries, ridx, rbatches, globalVars>>

\* create_links_batch: the next write statement of the pass.
OptWrite ==
    /\ rpc = "opt_write"
    /\ rwrites # <<>>
    /\ rel' = RunStatement(world, rel, Head(rwrites), rruns)
    /\ rwrites' = Tail(rwrites)
    /\ UNCHANGED <<otherVars, adminVars, world, rruns, rfailed, rlast, rpc, rseen,
                   rcountries, ridx, rbatches, rfetched, globalVars>>

\* link_country_batch returns: break when fewer than batch_size places
\* were fetched, else go round again.
OptBatchDone ==
    /\ rpc = "opt_write"
    /\ rwrites = <<>>
    /\ IF Len(rfetched) < PhaseBBatch
       THEN ridx' = ridx + 1 /\ rbatches' = 0
       ELSE ridx' = ridx /\ rbatches' = rbatches + 1
    /\ rpc' = "opt"
    /\ UNCHANGED <<otherVars, adminVars, world, rel, rruns, rfailed, rlast, rseen,
                   rcountries, rfetched, rwrites, globalVars>>

\* The worklist is exhausted: totals, exit 0.
OptFinish ==
    /\ rpc = "opt"
    /\ ridx > Len(rcountries)
    /\ rpc' = "idle"
    /\ rlast' = "B_optimized"
    /\ UNCHANGED <<otherVars, adminVars, world, rel, rruns, rfailed, rseen,
                   rcountries, ridx, rbatches, rfetched, rwrites, globalVars>>

\* A store error inside link_country_batch, in the query or in a write
\* statement: the statement that raised wrote nothing, the statements
\* before it are committed.  link_all_optimized has no handler, main
\* prints and re-raises.
OptFail ==
    /\ rpc \in {"opt", "opt_write"}
    /\ ridx <= Len(rcountries)
    /\ Cardinality(rfailed) < MaxResolverFails
    /\ rcountries[ridx] \notin rfailed
    /\ rfailed' = rfailed \cup {rcountries[ridx]}
    /\ rpc' = "idle"
    /\ rwrites' = <<>>
    /\ rlast' = "B_optimized_error"
    /\ UNCHANGED <<otherVars, adminVars, world, rel, rruns, rseen, rcountries,
                   ridx, rbatches, rfetched, globalVars>>

ResolverNext ==
    \/ PhaseADirect
    \/ GlobalPhaseA
    \/ GlobalGetCountries
    \/ GlobalCountry
    \/ GlobalWrite
    \/ GlobalCountryDone
    \/ GlobalFinish
    \/ GlobalFail
    \/ OptStart
    \/ OptBatch
    \/ OptWrite
    \/ OptBatchDone
    \/ OptFinish
    \/ OptFail

\* Any store of WikidataPlaces drawn from the catalogue, no resolver edge
\* yet, the hierarchy builder not running.
ResolverInit ==
    /\ AdminInit
    /\ LinkerIdle
    /\ FilterIdle
    /\ LoadersIdle
    /\ world \in (SUBSET DOMAIN WikidataCatalog) \ {{}}
    /\ rel = {}
    /\ rpc = "idle"
    /\ rseen = {}
    /\ rcountries = <<>>
    /\ ridx = 0
    /\ rbatches = 0
    /\ rfetched = <<>>
    /\ rwrites = <<>>
    /\ gpc = "idle"
    /\ gcountries = <<>>
    /\ gidx = 0
    /\ gwrites = <<>>
    /\ rruns = 0
    /\ rfailed = {}
    /\ rlast = "none"

SpecResolver == ResolverInit /\ [][ResolverNext]_vars

----------------------------------------------------------------------------
(* Claims on the Spatial Resolver                                           *)

SameAsFrom(qid) == {e \in rel : e.type = "SAME_AS" /\ e.src = qid}

\* Edges written by a Phase B implementation.
PhaseBEdges ==
    {e \in rel : \/ e.evidence \in {"spatial_proximity",
                                    "geographic_proximity"}
                 \/ e.matchMethod \in {"spatial_proximity",
                                       "geographic_proximity"}}

\* C4: after any sequence of Phase A and Phase B runs every WikidataPlace
\* has at most one outgoing SAME_AS edge, and every SAME_AS edge is either
\* an identifier match (evidence "geonames_id_match", confidence 1.0,
\* distance 0.0) or a spatial match (evidence "spatial_proximity",
\* confidence >= 0.85, distance <= 1.0 km).
C4_SameAsInvariant ==
    /\ \A i \in world :
           Cardinality(SameAsFrom(WikidataCatalog[i].qid)) <= 1
    /\ \A e \in rel : e.type = "SAME_AS" =>
           \/ /\ e.evidence = "geonames_id_match"
              /\ e.confidence = 1000
              /\ e.distance = 0
           \/ /\ e.evidence = "spatial_proximity"
              /\ e.confidence >= 850
              /\ e.distance <= 1000

\* C5: once Phase A has run on a store holding WikidataPlace Q172 with
\* geonamesId "6167865" (a string) and Place 6167865 (an integer key),
\* Q172 has exactly one SAME_AS edge: to Place 6167865, with evidence
\* "geonames_id_match", confidence 1.0 and distance 0.0.
C5_PhaseACoercesKey ==
    (rlast \in {"A_direct", "A_global"} /\ 1 \in world) =>
        \E e \in rel :
            /\ SameAsFrom("Q172") = {e}
            /\ e.dst = 6167865
            /\ e.evidence = "geonames_id_match"
            /\ e.confidence = 1000
            /\ e.distance = 0

\* C6: every Phase B edge is SAME_AS exactly when confidence >= 0.85 and
\* distance <= 1 km; otherwise LOCATED_IN exactly when the source priority
\* is below 60, the target priority at least 60 and the distance <= 5 km;
\* otherwise NEAR.  So every LOCATED_IN edge has distance <= 5 km, source
\* priority < 60 and target priority >= 60.
C6_EdgeTypeRule ==
    \A e \in PhaseBEdges :
        LET same == e.confidence >= 850 /\ e.distance <= 1000
            inside ==
                /\ get_entity_priority(WPOf(e.src), TRUE) < 60
                /\ get_entity_priority(GeoPlaceOf(e.dst), FALSE) >= 60
                /\ e.distance <= 5000
        IN e.type = IF same THEN "SAME_AS"
                    ELSE IF inside THEN "LOCATED_IN"
                    ELSE "NEAR"

\* The candidates of a source with the highest confidence.
BestScored(wp) ==
    LET nearby == find_nearby_with_bbox(wp)
    IN {nearby[i].geonameId : i \in
           {k \in DOMAIN nearby :
               \A j \in DOMAIN nearby :
                   OptConfidence(wp, nearby[k])
                       >= OptConfidence(wp, nearby[j])}}

BestConfidence(wp) ==
    LET nearby == find_nearby_with_bbox(wp)
    IN OptConfidence(wp,
           nearby[CHOOSE k \in DOMAIN nearby :
                      nearby[k].geonameId \in BestScored(wp)])

\* C7: the optimized Phase B links a source to its highest-confidence
\* candidate, not to the nearest one: every edge it writes goes to a
\* best-scored candidate, and when a run has completed, every source it
\* fetched whose best-scored candidate reaches the threshold is linked
\* to that candidate.
C7_BestScoredCandidateLinked ==
    /\ \A e \in rel :
           "spatial_proximity" \in {e.evidence, e.matchMethod} =>
               e.dst \in BestScored(WPOf(e.src))
    /\ rlast = "B_optimized" =>
           \A q \in rseen :
               (/\ find_nearby_with_bbox(WPOf(q)) # <<>>
                /\ BestConfidence(WPOf(q)) >= OptMinConfidence) =>
                   \E e \in rel : /\ e.src = q
                                  /\ e.dst \in BestScored(WPOf(q))
                                  /\ "spatial_proximity"
                                         \in {e.evidence, e.matchMethod}

\* C10: a country whose Phase B processing fails is skipped and the
\* optimized resolver goes on with the next country: whenever a run of it
\* has ended, it has gone through its whole worklist.
C10_FailureDoesNotEndRun ==
    (rpc = "idle" /\ rlast \in {"B_optimized", "B_optimized_error"}) =>
        ridx > Len(rcountries)

\* The confidence the scoring rule gives a pair at distance d: the
\* weighted sum with the type component taken from the two priorities.
FormulaConfidence(wp, place, d) ==
    Weighted(DistanceScore(d), NameScore(wp.name, place.name),
             TypeScore(get_entity_priority(wp, TRUE),
                       get_entity_priority(place, FALSE)))

\* C13: the confidence of every Phase B edge is 0.30 x distance + 0.50 x
\* name + 0.20 x type, clamped to [0, 1], with type = ((p_W + p_G) / 2) /
\* 100 from the two entity priorities, times 1.2 (capped at 1.0) when both
\* are at least 70.
C13_ConfidenceFormula ==
    \A e \in PhaseBEdges :
        e.confidence =
            Round3(FormulaConfidence(WPOf(e.src), GeoPlaceOf(e.dst),
                                     e.distance),
                   GlobalConfidenceFloat(WPOf(e.src),
                       [name |-> GeoPlaceOf(e.dst).name,
                        featureCode |-> GeoPlaceOf(e.dst).featureCode,
                        distance |-> e.distance]))

\* C14: every resolver edge carries a confidence in [0, 1], a distance
\* >= 0, an evidence property naming the rule that produced it, and a
\* linkedDate.
C14_EdgeProperties ==
    \A e \in rel :
        /\ e.confidence \in 0..1000
        /\ e.distance >= 0
        /\ e.evidence # NULL
        /\ e.linkedDate \in 1..MaxResolverRuns

----------------------------------------------------------------------------
(* Admin3 linker (scripts/linkers/add_admin3_links.py)                      *)

A3BatchSize == 2
MaxA3Runs == 2

Node3(id, cc, cls, code, a1, a2, a3) ==
    [geonameId |-> id, countryCode |-> cc, featureClass |-> cls,
     featureCode |-> code, admin1Code |-> a1, admin2Code |-> a2,
     admin3Code |-> a3]

\* The AdminDivision nodes of the store (the hierarchy builder has run).
A3Divisions ==
    { Node3(100, "CA", "A", "ADM3", "08", "3520", "A"),
      Node3(101, "CA", "A", "ADM3", "08", "3520", "B"),
      Node3(110, "CA", "A", "ADM4", "08", "3520", "A"),
      Node3(200, "FR", "A", "ADM3", "11", "75", "751"),
      Node3(210, "FR", "A", "ADM4", "11", "75", NULL) }

\* The non-admin Places a store may hold.
A3Catalog ==
    { Node3(301, "CA", "P", "PPL", "08", "3520", "A"),
      Node3(302, "CA", "P", "PPL", "08", "3520", "A"),
      Node3(303, "CA", "P", "PPL", "08", "3520", "B"),
      Node3(304, "CA", "P", "PPL", "08", "3520", "Z"),
      Node3(305, "CA", "S", "CH",  "08", "3520", NULL),
      Node3(306, "FR", "P", "PPL", "11", "75", "751"),
      Node3(307, "FR", "S", "MUS", "11", "75", "751") }

\* Lexical order of the country codes that occur (ORDER BY code).
A3CountryOrder == <<"CA", "FR">>

A3Node(id) == CHOOSE n \in A3Catalog \cup A3Divisions : n.geonameId = id

\* get_countries_needing_admin3: DISTINCT countryCode of the ADM3
\* divisions, ORDER BY code.
get_countries_needing_admin3 ==
    SelectSeq(A3CountryOrder,
              LAMBDA c : \E a \in A3Divisions :
                  a.featureCode = "ADM3" /\ a.countryCode = c)

\* The Places the count query and every batch query match: all three codes
\* set, not an admin feature, and no LOCATED_IN_ADMIN3 edge yet.
A3Unlinked(store, edges, c) ==
    SortedSeq({p.geonameId : p \in {n \in store :
        /\ n.countryCode = c
        /\ n.admin3Code # NULL
        /\ n.admin2Code # NULL
        /\ n.admin1Code # NULL
        /\ n.featureClass # "A"
        /\ ~\E e \in edges : e[1] = n.geonameId}})

\* MATCH (a:AdminDivision) WHERE a.featureCode = 'ADM3' AND the country and
\* the three codes equal those of Place id.
Adm3DivisionsFor(id) ==
    {a.geonameId : a \in {d \in A3Divisions :
        /\ d.featureCode = "ADM3"
        /\ d.countryCode = A3Node(id).countryCode
        /\ d.admin1Code = A3Node(id).admin1Code
        /\ d.admin2Code = A3Node(id).admin2Code
        /\ d.admin3Code = A3Node(id).admin3Code}}

\* The rows of one batch query: SKIP $skip LIMIT $limit over the Places
\* that are unlinked when the query runs.
A3BatchRows(store, edges, c, skip) ==
    Range(SkipLimit(A3Unlinked(store, edges, c), skip, A3BatchSize))

\* The edges one batch query MERGEs.
A3BatchEdges(store, edges, c, skip) ==
    {pa \in A3BatchRows(store, edges, c, skip) \X
            {a.geonameId : a \in A3Divisions} :
        pa[2] \in Adm3DivisionsFor(pa[1])}

\* link_admin4_to_admin3: ADM4 divisions with all three codes and no
\* PART_OF edge to an ADM3 division, joined to the ADM3 division with the
\* same codes.
Admin4Edges(edges) ==
    {aa \in {a.geonameId : a \in A3Divisions} \X
            {a.geonameId : a \in A3Divisions} :
        /\ A3Node(aa[1]).featureCode = "ADM4"
        /\ A3Node(aa[1]).admin3Code # NULL
        /\ A3Node(aa[1]).admin2Code # NULL
        /\ A3Node(aa[1]).admin1Code # NULL
        /\ ~\E e \in edges : e[1] = aa[1]
        /\ aa[2] \in Adm3DivisionsFor(aa[1])}

\* Admin3Linker.run: the worklist.
A3Start ==
    /\ a3pc = "idle"
    /\ a3runs < MaxA3Runs
    /\ a3runs' = a3runs + 1
    /\ a3countries' = get_countries_needing_admin3
    /\ a3idx' = 1
    /\ a3pc' = "count"
    /\ a3last' = "running"
    /\ UNCHANGED <<adminVars, resolverVars, filterVars, loadVars, a3store, locAdmin3,
                   partOf43, a3total, a3skip>>

\* link_places_to_admin3_for_country: the count query; total = 0 returns.
A3Count ==
    /\ a3pc = "count"
    /\ a3idx <= Len(a3countries)
    /\ a3total' = Len(A3Unlinked(a3store, locAdmin3, a3countries[a3idx]))
    /\ a3skip' = 0
    /\ IF a3total' = 0
       THEN a3idx' = a3idx + 1 /\ a3pc' = "count"
       ELSE a3idx' = a3idx /\ a3pc' = "batch"
    /\ UNCHANGED <<adminVars, resolverVars, filterVars, loadVars, a3store, locAdmin3,
                   partOf43, a3countries, a3runs, a3last>>

\* One pass of "for skip in range(0, total, self.batch_size)".
A3Batch ==
    /\ a3pc = "batch"
    /\ a3skip * A3BatchSize < a3total
    /\ locAdmin3' = locAdmin3 \cup
           A3BatchEdges(a3store, locAdmin3, a3countries[a3idx],
                        a3skip * A3BatchSize)
    /\ a3skip' = a3skip + 1
    /\ UNCHANGED <<adminVars, resolverVars, filterVars, loadVars, a3store, partOf43,
                   a3pc, a3countries, a3idx, a3total, a3runs, a3last>>

\* The range is exhausted: the country is done.
A3CountryDone ==
    /\ a3pc = "batch"
    /\ a3skip * A3BatchSize >= a3total
    /\ a3idx' = a3idx + 1
    /\ a3pc' = "count"
    /\ UNCHANGED <<adminVars, resolverVars, filterVars, loadVars, a3store, locAdmin3,
                   partOf43, a3countries, a3total, a3skip, a3runs, a3last>>

\* After the last country: link_admin4_to_admin3.
A3LinkAdmin4 ==
    /\ a3pc = "count"
    /\ a3idx > Len(a3countries)
    /\ partOf43' = partOf43 \cup Admin4Edges(partOf43)
    /\ a3pc' = "summary"
    /\ UNCHANGED <<adminVars, resolverVars, filterVars, loadVars, a3store, locAdmin3,
                   a3countries, a3idx, a3total, a3skip, a3runs, a3last>>

\* The summary: two count queries and the coverage, the edge count divided
\* by the number of Place nodes.  With no Place in the store the division
\* raises ZeroDivisionError, which main prints and re-raises.
A3Summary ==
    /\ a3pc = "summary"
    /\ a3pc' = "idle"
    /\ a3last' = (IF a3store = {} THEN "error" ELSE "done")
    /\ UNCHANGED <<adminVars, resolverVars, filterVars, loadVars, a3store, locAdmin3,
                   partOf43, a3countries, a3idx, a3total, a3skip, a3runs>>

\* main, "except KeyboardInterrupt": a SIGINT anywhere in run ends the
\* process with "Interrupted by user" and exit status 0; what the
\* statements before it wrote stays in the store.
A3Cancel ==
    /\ a3pc \in {"count", "batch", "summary"}
    /\ a3pc' = "idle"
    /\ a3last' = "sigint"
    /\ UNCHANGED <<adminVars, resolverVars, filterVars, loadVars, a3store, locAdmin3,
                   partOf43, a3countries, a3idx, a3total, a3skip, a3runs>>

\* main, "except Exception": a store error in any statement of run is
\* printed and re-raised; the statements before it are committed.
A3Error ==
    /\ a3pc \in {"count", "batch", "summary"}
    /\ a3pc' = "idle"
    /\ a3last' = "error"
    /\ UNCHANGED <<adminVars, resolverVars, filterVars, loadVars, a3store, locAdmin3,
                   partOf43, a3countries, a3idx, a3total, a3skip, a3runs>>

LinkerNext ==
    \/ A3Start
    \/ A3Count
    \/ A3Batch
    \/ A3CountryDone
    \/ A3LinkAdmin4
    \/ A3Summary
    \/ A3Cancel
    \/ A3Error

\* Any store of Places drawn from the catalogue, no LOCATED_IN_ADMIN3 edge.
LinkerInit ==
    /\ AdminInit
    /\ ResolverIdle
    /\ FilterIdle
    /\ LoadersIdle
    /\ a3store \in SUBSET A3Catalog
    /\ locAdmin3 = {}
    /\ partOf43 = {}
    /\ a3pc = "idle"
    /\ a3countries = <<>>
    /\ a3idx = 0
    /\ a3total = 0
    /\ a3skip = 0
    /\ a3runs = 0
    /\ a3last = "none"

SpecAdmin3 == LinkerInit /\ [][LinkerNext]_vars

\* C17: once the level-3 linking of a country has completed, every
\* non-admin Place of it with admin1, admin2 and admin3 codes set and a
\* matching ADM3 division has a LOCATED_IN_ADMIN3 edge to that division,
\* whatever the number of eligible Places relative to the batch size.
C17_Admin3LinksComplete ==
    \A i \in DOMAIN a3countries : i < a3idx =>
        \A p \in a3store :
            (/\ p.countryCode = a3countries[i]
             /\ p.featureClass # "A"
             /\ p.admin1Code # NULL
             /\ p.admin2Code # NULL
             /\ p.admin3Code # NULL) =>
                \A a \in Adm3DivisionsFor(p.geonameId) :
                    <<p.geonameId, a>> \in locAdmin3

----------------------------------------------------------------------------
(* Wikidata dump filters: WikidataFullDumpFilter (geographic entities,      *)
(* filter_wikidata_full_dump.py) and WikidataPeopleFilter                   *)
(* (filter_wikidata_people.py).                                             *)

\* Lines of the dump per input (the dump has one JSON entity per line).
MaxLines == 3
\* buffer_size: 1000 in both filters.
FilterBuffer == 2
\* Runs of the filter on the same input.
MaxFilterRuns == 2

\* A dictionary key that is not there (as opposed to a key holding None).
Absent == "ABSENT"

\* One claim: mainsnak.snaktype, mainsnak.datavalue.type and the value.
Snak(snaktype, type, str, lat, lon) ==
    [snaktype |-> snaktype, type |-> type, str |-> str, lat |-> lat, lon |-> lon]

CoordClaim(lat, lon) == Snak("value", "globecoordinate", "", lat, lon)

StringClaim(s) == Snak("value", "string", s, 0, 0)

ItemClaim(q) == Snak("value", "wikibase-entityid", q, 0, 0)

NoValueClaim == Snak("novalue", "", "", 0, 0)

\* One line of the dump after strip() and removal of the trailing comma.
\* json: "bracket" for '[' / ']', "invalid" for text json.loads rejects,
\* "number" for a JSON value that is not an object, "object" for an entity.
\* labels: <<lang, value>> in dictionary order; aliases: <<lang, values>>;
\* claims: <<property, claim list>>.
DumpLine(json, id, labels, aliases, claims) ==
    [json |-> json, id |-> id, labels |-> labels, aliases |-> aliases,
     claims |-> claims]

BracketLine == DumpLine("bracket", Absent, <<>>, <<>>, <<>>)

InvalidLine == DumpLine("invalid", Absent, <<>>, <<>>, <<>>)

NumberLine == DumpLine("number", Absent, <<>>, <<>>, <<>>)

\* Toronto: two labels with the same text, three aliases of which two are
\* equal, a first coordinate claim without value, a GeoNames id.
TorontoLine ==
    DumpLine("object", "Q172",
             << <<"en", "Toronto">>, <<"fr", "Toronto">> >>,
             << <<"en", <<"T.O.", "Hogtown">> >>, <<"fr", <<"T.O.">> >> >>,
             << <<"P625", <<NoValueClaim, CoordClaim(43653, -79383)>> >>,
                <<"P31", <<ItemClaim("Q515")>> >>,
                <<"P1566", <<StringClaim("6167865")>> >>,
                <<"P17", <<ItemClaim("Q16")>> >> >>)

\* An entity with coordinates and no label at all.
UnlabelledLine ==
    DumpLine("object", "Q2", <<>>, <<>>,
             << <<"P625", <<CoordClaim(53958, -1080)>> >> >>)

\* An entity with coordinates whose P1566 claim list is empty.
EmptyClaimLine ==
    DumpLine("object", "Q3", << <<"en", "Maitland">> >>, <<>>,
             << <<"P625", <<CoordClaim(45317, -63500)>> >>,
                <<"P1566", <<>> >> >>)

\* A person with a birth place.
PersonLine ==
    DumpLine("object", "Q7", << <<"en", "Ada">> >>, <<>>,
             << <<"P31", <<ItemClaim("Q5")>> >>,
                <<"P19", <<ItemClaim("Q172")>> >> >>)

\* A person with a place of death and a French label only.
PersonNoEnglishLine ==
    DumpLine("object", "Q8", << <<"fr", "Blaise">> >>, <<>>,
             << <<"P31", <<ItemClaim("Q5")>> >>,
                <<"P20", <<ItemClaim("Q90")>> >> >>)

DumpCatalog == {BracketLine, InvalidLine, NumberLine, TorontoLine,
                UnlabelledLine, EmptyClaimLine, PersonLine,
                PersonNoEnglishLine}

\* 'P' in claims
HasClaim(claims, prop) == \E i \in DOMAIN claims : claims[i][1] = prop

\* claims['P']
ClaimList(claims, prop) ==
    claims[CHOOSE i \in DOMAIN claims : claims[i][1] = prop][2]

\* _extract_string_value: the string of a value claim of type string, else None.
\* (The name without the leading underscore, which TLA+ does not allow.)
extract_string_value(claim) ==
    IF claim.snaktype = "value" /\ claim.type = "string" THEN claim.str ELSE NULL

\* _extract_item_id / extract_item_id
extract_item_id(claim) ==
    IF claim.snaktype = "value" /\ claim.type = "wikibase-entityid"
    THEN claim.str ELSE NULL

\* _extract_coordinates: <<lat, lon>> or <<>> for None.
extract_coordinates(claim) ==
    IF claim.snaktype = "value" /\ claim.type = "globecoordinate"
    THEN <<claim.lat, claim.lon>> ELSE <<>>

\* The loop over claims['P625']: the first claim coordinates can be
\* extracted from, <<>> when there is none.
RECURSIVE FirstCoordinates(_)
FirstCoordinates(cl) ==
    IF cl = <<>> THEN <<>>
    ELSE IF extract_coordinates(Head(cl)) # <<>>
         THEN extract_coordinates(Head(cl))
         ELSE FirstCoordinates(Tail(cl))

\* _extract_all_labels: every label value, in dictionary order.
extract_all_labels(e) == [i \in DOMAIN e.labels |-> e.labels[i][2]]

\* _extract_all_aliases: every alias of every language, in order.
RECURSIVE extract_aliases_from(_)
extract_aliases_from(al) ==
    IF al = <<>> THEN <<>> ELSE Head(al)[2] \o extract_aliases_from(Tail(al))

extract_all_aliases(e) == extract_aliases_from(e.aliases)

\* labels_dict.get('en', {}).get('value')
EnglishLabel(e) ==
    IF \E i \in DOMAIN e.labels : e.labels[i][1] = "en"
    THEN e.labels[CHOOSE i \in DOMAIN e.labels : e.labels[i][1] = "en"][2]
    ELSE NULL

\* The primary name: English label, else first label, else the QID.
PrimaryName(e) ==
    IF EnglishLabel(e) # NULL THEN EnglishLabel(e)
    ELSE IF e.labels # <<>> THEN e.labels[1][2]
    ELSE e.id

\* All orders in which the members of a set can be listed.
Orderings(S) ==
    {q \in [1..Cardinality(S) -> S] : \A i, j \in DOMAIN q : i # j => q[i] # q[j]}

\* list(set(all_labels + all_aliases)) without the primary name: the
\* iteration order of a set of strings depends on the string hashes, which
\* are randomised per process; every order is a possible outcome.
AlternateNameLists(e) ==
    Orderings(Range(extract_all_labels(e) \o extract_all_aliases(e))
              \ {PrimaryName(e)})

\* The properties parse_entity of the geographic filter reads as
\* claims['P...'][0] (of those the dump lines here carry).
GeoFirstClaimProps == {"P1566", "P17"}

\* parse_entity of the geographic filter returns None: no id, no P625, or no
\* P625 claim with coordinates.
GeoSkipped(e) ==
    \/ e.id = Absent
    \/ ~HasClaim(e.claims, "P625")
    \/ FirstCoordinates(ClaimList(e.claims, "P625")) = <<>>

\* parse_entity of the geographic filter raises: entity.get on a value that
\* is not a dict (AttributeError), or claims['P...'][0] on an empty claim
\* list (IndexError) once the entity has passed the coordinate check.
GeoRaises(e) ==
    \/ e.json = "number"
    \/ /\ e.json = "object"
       /\ ~GeoSkipped(e)
       /\ \E prop \in GeoFirstClaimProps :
              HasClaim(e.claims, prop) /\ ClaimList(e.claims, prop) = <<>>

\* instance_of_list: the item ids of the P31 claims that have one.
InstanceOfList(e) ==
    IF HasClaim(e.claims, "P31")
    THEN SelectSeq([i \in DOMAIN ClaimList(e.claims, "P31") |->
                        extract_item_id(ClaimList(e.claims, "P31")[i])],
                   LAMBDA q : q # NULL)
    ELSE <<>>

\* result['...Qid'] = extract_item_id(claims['P...'][0]) when the property is
\* there.
FirstItem(e, prop) ==
    IF HasClaim(e.claims, prop)
    THEN extract_item_id(ClaimList(e.claims, prop)[1]) ELSE Absent

\* The record parse_entity of the geographic filter returns for an entity it
\* neither skips nor fails on, with the alternate names in the order alt.
GeoRecord(e, alt) ==
    [qid |-> e.id,
     name |-> PrimaryName(e),
     latitude |-> FirstCoordinates(ClaimList(e.claims, "P625"))[1],
     longitude |-> FirstCoordinates(ClaimList(e.claims, "P625"))[2],
     alternateNames |-> alt,
     instanceOfQid |-> IF InstanceOfList(e) = <<>> THEN Absent
                       ELSE InstanceOfList(e)[1],
     geonamesId |-> IF HasClaim(e.claims, "P1566")
                       /\ extract_string_value(ClaimList(e.claims, "P1566")[1]) # NULL
                    THEN extract_string_value(ClaimList(e.claims, "P1566")[1])
                    ELSE Absent,
     countryQid |-> FirstItem(e, "P17")]

\* is_person: some P31 claim is Q5.
is_person(claims) ==
    /\ HasClaim(claims, "P31")
    /\ \E i \in DOMAIN ClaimList(claims, "P31") :
           extract_item_id(ClaimList(claims, "P31")[i]) = "Q5"

\* has_place_connection
PlaceProperties == {"P19", "P20", "P551", "P937", "P27"}

has_place_connection(claims) == \E prop \in PlaceProperties : HasClaim(claims, prop)

\* parse_entity of the people filter caught an exception (except Exception):
\* a value that is not a dict, or an empty claim list read with [0].
PeopleCaught(e) ==
    \/ e.json = "number"
    \/ /\ e.json = "object"
       /\ is_person(e.claims) /\ has_place_connection(e.claims)
       /\ EnglishLabel(e) # NULL
       /\ HasClaim(e.claims, "P19") /\ ClaimList(e.claims, "P19") = <<>>

\* parse_entity of the people filter returns None.
PeopleSkipped(e) ==
    \/ PeopleCaught(e)
    \/ ~is_person(e.claims)
    \/ ~has_place_connection(e.claims)
    \/ EnglishLabel(e) = NULL

PeopleRecord(e) ==
    [wikidataId |-> e.id,
     name |-> EnglishLabel(e),
     birthPlaceQid |-> FirstItem(e, "P19")]

\* A flush that writes nothing.
flush_nothing(out, buf) == out

\* flush_buffer: the buffered records are appended to the stream in order.
flush_buffer(out, buf) == out \o buf

\* output_buffer.append(record), then the flush when the buffer has reached
\* buffer_size: the stream and the buffer afterwards.
Buffered(out, buf, rec) ==
    IF Len(buf) + 1 >= FilterBuffer
    THEN <<flush_buffer(out, Append(buf, rec)), <<>> >>
    ELSE <<out, Append(buf, rec)>>

\* The records one line can add to the buffer (none, or one per possible
\* order of its alternate names) and the parse errors it adds.
LineRecords(kind, e) ==
    IF e.json # "object" THEN {}
    ELSE IF kind = "geo"
         THEN IF GeoSkipped(e) THEN {}
              ELSE {GeoRecord(e, alt) : alt \in AlternateNameLists(e)}
         ELSE IF PeopleSkipped(e) THEN {} ELSE {PeopleRecord(e)}

LineErrors(kind, e) ==
    IF e.json = "invalid" THEN 1
    ELSE IF kind = "people" /\ e.json # "bracket" /\ PeopleCaught(e) THEN 1
    ELSE 0

\* A line that counts everything, brackets included.
CountsEveryLine(kind, e) == TRUE

\* The line is counted in stats['total_entities']: the geographic filter
\* counts the lines left after the brackets and empty lines are skipped
\* (line_num), the people filter counts every line read.
CountsAsEntity(kind, e) == kind = "people" \/ e.json # "bracket"

\* The line is counted in stats['with_coordinates']: parse_entity of the
\* geographic filter got past the coordinate check.
CountsCoordinates(kind, e) ==
    kind = "geo" /\ e.json = "object" /\ ~GeoSkipped(e)

\* process_dump / filter_dump up to the loop: a new filter object, the output
\* file opened for writing (truncated); the geographic filter writes the
\* metadata header, the people filter writes none.
FStart ==
    /\ fpc \in {"idle", "done", "aborted", "stats_error"}
    /\ fruns < MaxFilterRuns
    /\ fruns' = fruns + 1
    /\ fprev' = [done |-> fpc = "done", out |-> fout]
    /\ fout' = <<>>
    /\ fbuf' = <<>>
    /\ fpos' = 0
    /\ ferrors' = 0
    /\ ftotal' = 0
    /\ fwith' = 0
    /\ fmeta' = (fkind = "geo")
    /\ fpc' = "loop"
    /\ UNCHANGED <<adminVars, resolverVars, linkerVars, loadVars, finput, fkind>>

\* One iteration of the loop over the lines that raises nothing the loop
\* does not catch: brackets are skipped, invalid JSON is counted, a matching
\* entity is buffered and the buffer flushed at the threshold.
FLine ==
    /\ fpc = "loop"
    /\ fpos < Len(finput)
    /\ LET e == finput[fpos + 1] IN
        /\ ~(fkind = "geo" /\ GeoRaises(e))
        /\ fpos' = fpos + 1
        /\ ferrors' = ferrors + LineErrors(fkind, e)
        /\ ftotal' = ftotal + (IF CountsAsEntity(fkind, e) THEN 1 ELSE 0)
        /\ fwith' = fwith + (IF CountsCoordinates(fkind, e) THEN 1 ELSE 0)
        /\ IF LineRecords(fkind, e) = {}
           THEN UNCHANGED <<fout, fbuf>>
           ELSE \E rec \in LineRecords(fkind, e) :
                    /\ fout' = Buffered(fout, fbuf, rec)[1]
                    /\ fbuf' = Buffered(fout, fbuf, rec)[2]
    /\ UNCHANGED <<adminVars, resolverVars, linkerVars, loadVars, finput, fkind, fpc,
                   fmeta, fprev, fruns>>

\* One iteration of the loop of the geographic filter in which parse_entity
\* raises: only json.JSONDecodeError is caught, so the exception leaves
\* process_dump; finally closes the handles, the flush of the remaining
\* buffer is not reached.
FLineRaises ==
    /\ fpc = "loop"
    /\ fpos < Len(finput)
    /\ fkind = "geo"
    /\ GeoRaises(finput[fpos + 1])
    /\ fpos' = fpos + 1
    /\ ftotal' = ftotal + 1
    /\ fwith' = fwith + (IF CountsCoordinates(fkind, finput[fpos + 1]) THEN 1 ELSE 0)
    /\ fpc' = "aborted"
    /\ UNCHANGED <<adminVars, resolverVars, linkerVars, loadVars, finput, fkind, fbuf,
                   fout, ferrors, fmeta, fprev, fruns>>

\* The end of the input: the remaining buffer is written, the handles are
\* closed and the statistics printed.  flush_buffer of the geographic
\* filter empties output_buffer; filter_dump of the people filter writes
\* the remaining items and leaves them in the list.  print_statistics of the geographic
\* filter divides by total_entities: with no entity line read it raises
\* ZeroDivisionError, after the output file is complete.  print_stats of
\* the people filter divides nothing.
FFinish ==
    /\ fpc = "loop"
    /\ fpos = Len(finput)
    /\ fout' = (IF fbuf # <<>> THEN flush_buffer(fout, fbuf) ELSE fout)
    /\ fbuf' = (IF fkind = "geo" THEN <<>> ELSE fbuf)
    /\ fpc' = (IF fkind = "geo" /\ ftotal = 0 THEN "stats_error" ELSE "done")
    /\ UNCHANGED <<adminVars, resolverVars, linkerVars, loadVars, finput, fkind, fpos,
                   ferrors, ftotal, fwith, fmeta, fprev, fruns>>

FilterNext == FStart \/ FLine \/ FLineRaises \/ FFinish

\* The inputs: every dump of 1..MaxLines lines, for either filter.
FilterInit ==
    /\ AdminInit
    /\ ResolverIdle
    /\ LinkerIdle
    /\ LoadersIdle
    /\ finput \in UNION {[1..n -> DumpCatalog] : n \in 1..MaxLines}
    /\ fkind \in {"geo", "people"}
    /\ fpc = "idle"
    /\ fpos = 0
    /\ fbuf = <<>>
    /\ fout = <<>>
    /\ ferrors = 0
    /\ ftotal = 0
    /\ fwith = 0
    /\ fmeta = FALSE
    /\ fprev = [done |-> FALSE, out |-> <<>>]
    /\ fruns = 0

SpecFilter == FilterInit /\ [][FilterNext]_vars

\* A line holds an entity of the stream: for the geographic filter an entity
\* with an id and a coordinate value, for the people filter a human with a
\* place property and an English label.
IsMatch(kind, e) ==
    /\ e.json = "object"
    /\ IF kind = "geo"
       THEN /\ e.id # Absent
            /\ HasClaim(e.claims, "P625")
            /\ \E i \in DOMAIN ClaimList(e.claims, "P625") :
                   LET c == ClaimList(e.claims, "P625")[i] IN
                       c.snaktype = "value" /\ c.type = "globecoordinate"
       ELSE /\ \E i \in DOMAIN e.claims :
                   /\ e.claims[i][1] = "P31"
                   /\ \E j \in DOMAIN e.claims[i][2] :
                          e.claims[i][2][j] = ItemClaim("Q5")
            /\ \E i \in DOMAIN e.claims : e.claims[i][1] \in PlaceProperties
            /\ \E i \in DOMAIN e.labels : e.labels[i][1] = "en"

\* The ids of the matching entities among the first n lines, in source order.
MatchIds(kind, lines, n) ==
    LET m == SelectSeq(SubSeq(lines, 1, n), LAMBDA e : IsMatch(kind, e))
    IN  [i \in DOMAIN m |-> m[i].id]

\* The ids of a sequence of output records.
RecordIds(kind, recs) ==
    [i \in DOMAIN recs |-> IF kind = "geo" THEN recs[i].qid ELSE recs[i].wikidataId]

\* C18: the filter never aborts on an input line (invalid JSON, a JSON value
\* that is not an object, an empty claim list): it goes on with the next
\* line and what it has buffered reaches the stream.
C18_NeverAborts ==
    /\ fpc # "aborted"
    /\ fpc = "done" => RecordIds(fkind, fout) = MatchIds(fkind, finput, Len(finput))

\* C19: in a run that reads its input to the end, the stream holds every
\* matching entity exactly once and in source order, whatever the number of
\* matches relative to the buffer threshold; while the run reads, the stream
\* followed by the buffer is that sequence for the lines read so far, and
\* the buffer stays below the threshold.
C19_EveryMatchOnceInOrder ==
    /\ fpc = "loop" =>
           /\ RecordIds(fkind, fout \o fbuf) = MatchIds(fkind, finput, fpos)
           /\ Len(fbuf) < FilterBuffer
    /\ fpc \in {"done", "stats_error"} =>
           /\ fpos = Len(finput)
           /\ RecordIds(fkind, fout) = MatchIds(fkind, finput, Len(finput))

\* C19 witness: a completed run with more matches than the buffer threshold
\* and a remainder that only the final flush writes.
C19_Witness ==
    /\ fpc = "done"
    /\ Len(fout) = FilterBuffer + 1
    /\ RecordIds(fkind, fout) = MatchIds(fkind, finput, Len(finput))

\* The alternate names in first-seen order: labels then aliases, duplicates
\* and the primary name removed.
RECURSIVE FirstSeen(_, _)
FirstSeen(names, seen) ==
    IF names = <<>> THEN <<>>
    ELSE IF Head(names) \in seen THEN FirstSeen(Tail(names), seen)
         ELSE <<Head(names)>> \o FirstSeen(Tail(names), seen \cup {Head(names)})

FirstSeenAlternateNames(e) ==
    FirstSeen(extract_all_labels(e) \o extract_all_aliases(e), {PrimaryName(e)})

\* C20: two completed runs of the geographic filter on the same input write
\* the same records, and each record's alternate names are deduplicated and
\* in first-seen order.
C20_RepeatableOutput ==
    (fkind = "geo" /\ fpc = "done") =>
        /\ fprev.done => fout = fprev.out
        /\ \A i \in DOMAIN fout :
               \A e \in Range(finput) :
                   (e.json = "object" /\ e.id = fout[i].qid) =>
                       fout[i].alternateNames = FirstSeenAlternateNames(e)

\* The number of members of a sequence that satisfy a test.
CountLines(lines, Test(_)) == Len(SelectSeq(lines, Test))

\* C21: when the geographic filter has finished a dump, total_entities is
\* the number N of its entity lines (the lines that are not array brackets),
\* with_coordinates is the number M of lines that carry a coordinate value,
\* and the output is one metadata line followed by exactly M entity lines.
C21_StatisticsMatchOutput ==
    (fkind = "geo" /\ fpc \in {"done", "stats_error"}) =>
        /\ ftotal = CountLines(finput, LAMBDA e : e.json # "bracket")
        /\ fwith = CountLines(finput, LAMBDA e : IsMatch("geo", e))
        /\ fmeta
        /\ Len(fout) = fwith

\* C21 witness: a finished run over a bracket line and two entities with
\* coordinates.
C21_Witness ==
    /\ fkind = "geo" /\ fpc = "done"
    /\ \E i \in DOMAIN finput : finput[i].json = "bracket"
    /\ ftotal = 2 /\ fwith = 2 /\ Len(fout) = 2

\* The lines of a dump that hold a human (P31 = Q5) with at least one of
\* the place properties, whatever its labels.
IsPersonWithPlace(e) ==
    /\ e.json = "object"
    /\ \E i \in DOMAIN e.claims :
           /\ e.claims[i][1] = "P31"
           /\ \E j \in DOMAIN e.claims[i][2] : e.claims[i][2][j] = ItemClaim("Q5")
    /\ \E i \in DOMAIN e.claims : e.claims[i][1] \in PlaceProperties

\* C22: the person stream of a finished run holds exactly the entities with
\* P31 = Q5 and a place property, and each is named by its English label,
\* else by its first label, else by its QID.
C22_PersonEmittedIff ==
    (fkind = "people" /\ fpc = "done") =>
        LET persons == SelectSeq(finput, IsPersonWithPlace) IN
            /\ Len(fout) = Len(persons)
            /\ \A i \in DOMAIN persons :
                   /\ fout[i].wikidataId = persons[i].id
                   /\ fout[i].name = PrimaryName(persons[i])

----------------------------------------------------------------------------
(* GeoNames gazetteer loaders: GlobalGeoNamesLoader (load_global_geonames.py) *)
(* and GeoNamesLoader (load_geonames.py).                                    *)

\* Rows per input file.
MaxRows == 3
\* batch_size: 10000 in both loaders.
GzBatchSize == 2

\* A column of a row as csv.DictReader hands it over: a decimal number (in
\* thousandths of a degree), an empty string, text that is not a number, or
\* None when the row is too short to have the column.
NumText(v) == [kind |-> "num", val |-> v]

EmptyText == [kind |-> "empty", val |-> 0]

JunkText == [kind |-> "junk", val |-> 0]

NoColumn == [kind |-> "none", val |-> 0]

GzRowOf(id, lat, lon) == [geonameid |-> id, latitude |-> lat, longitude |-> lon]

GzRows ==
    {GzRowOf(1, NumText(43653), NumText(-79383)),
     GzRowOf(2, EmptyText, NumText(-79383)),
     GzRowOf(3, NumText(45317), JunkText),
     GzRowOf(4, NumText(95000), NumText(10000)),
     GzRowOf(5, NumText(10000), NumText(190000)),
     GzRowOf(6, NumText(53958), NoColumn)}

\* float(text): <<value>>, or "ValueError" / "TypeError" for what it raises.
ParseFloat(f) ==
    IF f.kind = "num" THEN [ok |-> TRUE, val |-> f.val, raises |-> ""]
    ELSE IF f.kind = "none" THEN [ok |-> FALSE, val |-> 0, raises |-> "TypeError"]
    ELSE [ok |-> FALSE, val |-> 0, raises |-> "ValueError"]

\* A parsed place; a coordinate is <<v>>, or <<>> for None.
GzPlace(id, lat, lon) == [geonameId |-> id, latitude |-> lat, longitude |-> lon]

\* parse_geonames_row raises out of its inner try (only ValueError and
\* KeyError are caught there): float(None) is a TypeError.
ParseRaises(row) ==
    \/ ParseFloat(row.latitude).raises = "TypeError"
    \/ /\ ParseFloat(row.latitude).ok
       /\ ParseFloat(row.longitude).raises = "TypeError"

\* parse_geonames_row: the sequence of places it returns (<<>> for None or
\* for an exception that the caller turns into a skipped row).
\* global: None when a coordinate did not parse, or on any exception.
\* basic: a place with both coordinates None when one did not parse.
parse_geonames_row(kind, row) ==
    IF ParseRaises(row) THEN <<>>
    ELSE IF ParseFloat(row.latitude).ok /\ ParseFloat(row.longitude).ok
         THEN <<GzPlace(row.geonameid, <<ParseFloat(row.latitude).val>>,
                                        <<ParseFloat(row.longitude).val>>)>>
         ELSE IF kind = "global" THEN <<>>
              ELSE <<GzPlace(row.geonameid, <<>>, <<>>)>>

LatInRange(c) == c # <<>> /\ c[1] >= -90000 /\ c[1] <= 90000

LonInRange(c) == c # <<>> /\ c[1] >= -180000 /\ c[1] <= 180000

\* MERGE (p:Place {geonameId}) SET ...: one node per id, the last write wins.
RECURSIVE MergePlaces(_, _)
MergePlaces(store, batch) ==
    IF batch = <<>> THEN store
    ELSE MergePlaces({q \in store : q.geonameId # Head(batch).geonameId}
                         \cup {Head(batch)},
                     Tail(batch))

\* load_places_batch: the possible stores afterwards and whether the query
\* raised.  The global loader also sets p.location = point({latitude,
\* longitude}); the store rejects a point whose latitude is out of range
\* (the whole statement fails), and for a longitude out of range it either
\* rejects the point or wraps it, depending on the server version.  The
\* basic loader sets the plain properties only.
load_places_batch(kind, store, batch) ==
    IF kind = "basic" THEN {[ok |-> TRUE, store |-> MergePlaces(store, batch)]}
    ELSE IF \E i \in DOMAIN batch : ~LatInRange(batch[i].latitude)
         THEN {[ok |-> FALSE, store |-> store]}
         ELSE IF \E i \in DOMAIN batch : ~LonInRange(batch[i].longitude)
              THEN {[ok |-> FALSE, store |-> store],
                    [ok |-> TRUE, store |-> MergePlaces(store, batch)]}
              ELSE {[ok |-> TRUE, store |-> MergePlaces(store, batch)]}

\* load_allcountries_file / load_geonames_file up to the loop.
GzStart ==
    /\ gzpc = "idle"
    /\ gzpc' = "loop"
    /\ UNCHANGED <<adminVars, resolverVars, linkerVars, filterVars, wdlVars, famVars,
                   gzinput,
                   gzkind, gzpos, gzbatch, gzsent, gzstore, gzskipped>>

\* One iteration of the loop over the rows: the row is parsed, a row without
\* a place is skipped, a place is appended to the batch, and a full batch is
\* loaded.  An exception of the store leaves the function.
GzRow ==
    /\ gzpc = "loop"
    /\ gzpos < Len(gzinput)
    /\ gzpos' = gzpos + 1
    /\ LET parsed == parse_geonames_row(gzkind, gzinput[gzpos + 1])
           batch == gzbatch \o parsed
       IN  IF parsed = <<>>
           THEN /\ gzskipped' = gzskipped + 1
                /\ UNCHANGED <<gzpc, gzbatch, gzsent, gzstore>>
           ELSE /\ UNCHANGED gzskipped
                /\ IF Len(batch) >= GzBatchSize
                   THEN /\ gzsent' = gzsent \cup Range(batch)
                        /\ \E o \in load_places_batch(gzkind, gzstore, batch) :
                               /\ gzstore' = o.store
                               /\ gzpc' = (IF o.ok THEN "loop" ELSE "error")
                               /\ gzbatch' = (IF o.ok THEN <<>> ELSE batch)
                   ELSE /\ gzbatch' = batch
                        /\ UNCHANGED <<gzpc, gzsent, gzstore>>
    /\ UNCHANGED <<adminVars, resolverVars, linkerVars, filterVars, wdlVars, famVars,
                   gzinput,
                   gzkind>>

\* The end of the file: the remaining batch is loaded.
GzFinish ==
    /\ gzpc = "loop"
    /\ gzpos = Len(gzinput)
    /\ IF gzbatch = <<>>
       THEN /\ gzpc' = "done"
            /\ UNCHANGED <<gzbatch, gzsent, gzstore>>
       ELSE /\ gzsent' = gzsent \cup Range(gzbatch)
            /\ \E o \in load_places_batch(gzkind, gzstore, gzbatch) :
                   /\ gzstore' = o.store
                   /\ gzpc' = (IF o.ok THEN "done" ELSE "error")
                   /\ UNCHANGED gzbatch
    /\ UNCHANGED <<adminVars, resolverVars, linkerVars, filterVars, wdlVars, famVars,
                   gzinput,
                   gzkind, gzpos, gzskipped>>

\* GeoNamesLoader.clear_database (load_geonames.py only), called between two
\* other calls on the loader: without confirm it only prints; with confirm
\* MATCH (n) DETACH DELETE n removes every node of the store.
GzClearDatabase ==
    /\ gzkind = "basic"
    /\ gzpc \in {"idle", "done", "error"}
    /\ \E confirm \in BOOLEAN :
           gzstore' = (IF confirm THEN {} ELSE gzstore)
    /\ UNCHANGED <<adminVars, resolverVars, linkerVars, filterVars, wdlVars, famVars,
                   gzinput,
                   gzkind, gzpc, gzpos, gzbatch, gzsent, gzskipped>>

GazetteerNext == GzStart \/ GzRow \/ GzFinish \/ GzClearDatabase

\* The inputs: every file of 1..MaxRows rows, for either loader, over an
\* empty store.
GazetteerInit ==
    /\ AdminInit
    /\ ResolverIdle
    /\ LinkerIdle
    /\ FilterIdle
    /\ WdlIdle
    /\ FamIdle
    /\ gzinput \in UNION {[1..n -> GzRows] : n \in 1..MaxRows}
    /\ gzkind \in {"global", "basic"}
    /\ gzpc = "idle"
    /\ gzpos = 0
    /\ gzbatch = <<>>
    /\ gzsent = {}
    /\ gzstore = {}
    /\ gzskipped = 0

SpecGazetteer == GazetteerInit /\ [][GazetteerNext]_vars

\* C23: every Place record handed to the store, and every Place written,
\* has a latitude in [-90, 90] and a longitude in [-180, 180]; rows whose
\* coordinates are missing, unparseable or out of range are discarded.
C23_PlacesHaveValidCoordinates ==
    \A p \in gzsent \cup gzstore :
        LatInRange(p.latitude) /\ LonInRange(p.longitude)

----------------------------------------------------------------------------
(* The store writer for the filtered Wikidata streams: WikidataLoader       *)
(* (load_wikidata_entities_fixed.py), fed by the streams the filters write. *)

\* Entity records per stream.
MaxStream == 3
\* batch_size: 1000.
WdBatchSize == 2

\* One line of a stream: the metadata object, or an entity record with its
\* id and coordinates in thousandths of a degree (<<>> when the record has
\* none, as the person and organization records).
StreamLine(meta, qid, lat, lon) ==
    [meta |-> meta, qid |-> qid, latitude |-> lat, longitude |-> lon]

MetadataLine == StreamLine(TRUE, "", <<>>, <<>>)

\* Records of the geographic stream: in range, on a range boundary, with
\* latitude and longitude exchanged, out of range beyond repair (twice),
\* and on the equator.
GeoStreamRecords ==
    {StreamLine(FALSE, "Q172", <<43653>>, <<-79383>>),
     StreamLine(FALSE, "Q15", <<90000>>, <<-180000>>),
     StreamLine(FALSE, "Q62", <<-122419>>, <<37775>>),
     StreamLine(FALSE, "Q11", <<200000>>, <<10000>>),
     StreamLine(FALSE, "Q12", <<95000>>, <<120000>>),
     StreamLine(FALSE, "Q13", <<0>>, <<10000>>)}

PersonStreamRecords ==
    {StreamLine(FALSE, "Q7", <<>>, <<>>), StreamLine(FALSE, "Q8", <<>>, <<>>)}

OrgStreamRecords ==
    {StreamLine(FALSE, "Q95", <<>>, <<>>), StreamLine(FALSE, "Q312", <<>>, <<>>)}

StreamRecords(kind) ==
    IF kind = "geo" THEN GeoStreamRecords
    ELSE IF kind = "people" THEN PersonStreamRecords
    ELSE OrgStreamRecords

\* The stream file a filter writes for a sequence of records: process_dump of
\* the geographic filter writes the metadata object first; filter_dump of the
\* people and organization filters writes the records only.
WrittenStream(kind, recs) ==
    IF kind = "geo" THEN <<MetadataLine>> \o recs ELSE recs

NodeLabel(kind) ==
    IF kind = "geo" THEN "WikidataPlace"
    ELSE IF kind = "people" THEN "Person"
    ELSE "Organization"

\* The loop body's test before a record joins the batch: the id is there
\* and, for the geographic stream, entity.get('latitude') is truthy (neither
\* None nor 0).
ReaderKeeps(kind, line) ==
    /\ ~line.meta
    /\ line.qid # ""
    /\ kind = "geo" => (line.latitude # <<>> /\ line.latitude[1] # 0)

\* A swap that is never applied.
NeverSwapped(rec) == <<rec>>

\* The coordinate validation of _load_geo_batch for one record: the records
\* it appends to valid_batch (one or none).
ValidateCoordinates(rec) ==
    IF rec.latitude = <<>> \/ rec.longitude = <<>> THEN <<>>
    ELSE LET lat == rec.latitude[1]
             lon == rec.longitude[1]
         IN  IF -90000 <= lat /\ lat <= 90000 /\ -180000 <= lon /\ lon <= 180000
             THEN <<rec>>
             ELSE IF -90000 <= lon /\ lon <= 90000 /\ -180000 <= lat /\ lat <= 180000
                  THEN <<StreamLine(FALSE, rec.qid, <<lon>>, <<lat>>)>>
                  ELSE <<>>

\* The branch of the validation a record takes, as counted in coord_stats.
CoordinateOutcome(rec) ==
    IF rec.latitude = <<>> \/ rec.longitude = <<>> THEN "skipped_missing"
    ELSE LET lat == rec.latitude[1]
             lon == rec.longitude[1]
         IN  IF -90000 <= lat /\ lat <= 90000 /\ -180000 <= lon /\ lon <= 180000
             THEN "valid"
             ELSE IF -90000 <= lon /\ lon <= 90000 /\ -180000 <= lat /\ lat <= 180000
                  THEN "fixed_swapped"
                  ELSE "skipped_invalid"

RECURSIVE ValidBatch(_)
ValidBatch(batch) ==
    IF batch = <<>> THEN <<>>
    ELSE ValidateCoordinates(Head(batch)) \o ValidBatch(Tail(batch))

CountOutcome(batch, outcome) ==
    Len(SelectSeq(batch, LAMBDA r : CoordinateOutcome(r) = outcome))

\* MERGE (n:Label {qid}) SET ...: one node per label and qid, last write wins.
RECURSIVE MergeNodes(_, _, _)
MergeNodes(store, label, batch) ==
    IF batch = <<>> THEN store
    ELSE MergeNodes({n \in store : ~(n.label = label /\ n.qid = Head(batch).qid)}
                        \cup {[label |-> label, qid |-> Head(batch).qid,
                               latitude |-> Head(batch).latitude,
                               longitude |-> Head(batch).longitude]},
                    label, Tail(batch))

\* _load_geo_batch / _load_people_batch / _load_orgs_batch: the records that
\* are written for a batch.
BatchToWrite(kind, batch) == IF kind = "geo" THEN ValidBatch(batch) ELSE batch

\* coord_stats after a batch.
StatsAfter(kind, stats, batch) ==
    IF kind # "geo" THEN stats
    ELSE [fixed_swapped |-> stats.fixed_swapped + CountOutcome(batch, "fixed_swapped"),
          skipped_invalid |-> stats.skipped_invalid + CountOutcome(batch, "skipped_invalid"),
          skipped_missing |-> stats.skipped_missing + CountOutcome(batch, "skipped_missing")]

\* load_people / load_organizations / load_geographic_entities up to the
\* loop: the file is opened and next(f) skips its first line, whatever it
\* holds; on an empty file next(f) raises StopIteration.
WdStart ==
    /\ wdpc = "idle"
    /\ IF wdinput = <<>>
       THEN wdpc' = "error" /\ UNCHANGED wdpos
       ELSE wdpc' = "loop" /\ wdpos' = 1
    /\ UNCHANGED <<adminVars, resolverVars, linkerVars, filterVars, gazVars, famVars,
                   wdinput, wdkind, wdbatch, wdseen, wdstore, wdstats, wdcount>>

\* One iteration of the loop over the lines: a line without id (or, for the
\* geographic stream, without a truthy latitude) is skipped, a record joins
\* the batch, and a full batch is validated and written.
WdLine ==
    /\ wdpc = "loop"
    /\ wdpos < Len(wdinput)
    /\ wdpos' = wdpos + 1
    /\ LET line == wdinput[wdpos + 1]
           batch == Append(wdbatch, line)
       IN  IF ~ReaderKeeps(wdkind, line)
           THEN UNCHANGED <<wdbatch, wdseen, wdstore, wdstats, wdcount>>
           ELSE IF Len(batch) >= WdBatchSize
                THEN /\ wdbatch' = <<>>
                     /\ wdseen' = wdseen \o batch
                     /\ wdstore' = MergeNodes(wdstore, NodeLabel(wdkind),
                                              BatchToWrite(wdkind, batch))
                     /\ wdstats' = StatsAfter(wdkind, wdstats, batch)
                     /\ wdcount' = wdcount + Len(BatchToWrite(wdkind, batch))
                ELSE /\ wdbatch' = batch
                     /\ UNCHANGED <<wdseen, wdstore, wdstats, wdcount>>
    /\ UNCHANGED <<adminVars, resolverVars, linkerVars, filterVars, gazVars, famVars,
                   wdinput, wdkind, wdpc>>

\* The end of the stream: the remaining batch is validated and written.
WdFinish ==
    /\ wdpc = "loop"
    /\ wdpos = Len(wdinput)
    /\ wdpc' = "done"
    /\ wdbatch' = <<>>
    /\ wdseen' = wdseen \o wdbatch
    /\ wdstore' = MergeNodes(wdstore, NodeLabel(wdkind), BatchToWrite(wdkind, wdbatch))
    /\ wdstats' = StatsAfter(wdkind, wdstats, wdbatch)
    /\ wdcount' = wdcount + Len(BatchToWrite(wdkind, wdbatch))
    /\ UNCHANGED <<adminVars, resolverVars, linkerVars, filterVars, gazVars, famVars,
                   wdinput, wdkind, wdpos>>

WikidataLoaderNext == WdStart \/ WdLine \/ WdFinish

\* The inputs: for each stream, the file its filter writes for every
\* sequence of 0..MaxStream records.
WikidataLoaderInit ==
    /\ AdminInit
    /\ ResolverIdle
    /\ LinkerIdle
    /\ FilterIdle
    /\ GazIdle
    /\ FamIdle
    /\ wdkind \in {"geo", "people", "orgs"}
    /\ \E recs \in UNION {[1..n -> StreamRecords(wdkind)] : n \in 0..MaxStream} :
           wdinput = WrittenStream(wdkind, recs)
    /\ wdpc = "idle"
    /\ wdpos = 0
    /\ wdbatch = <<>>
    /\ wdseen = <<>>
    /\ wdstore = {}
    /\ wdstats = [fixed_swapped |-> 0, skipped_invalid |-> 0, skipped_missing |-> 0]
    /\ wdcount = 0

SpecWikidataLoader == WikidataLoaderInit /\ [][WikidataLoaderNext]_vars

\* The coordinates a WikidataPlace record is to be persisted with: unchanged
\* when latitude is in [-90, 90] and longitude in [-180, 180]; exchanged when
\* latitude is outside [-90, 90] but within [-180, 180] and longitude is in
\* [-90, 90]; <<>> (dropped) otherwise.
ExpectedCoordinates(rec) ==
    LET lat == rec.latitude[1]
        lon == rec.longitude[1]
        Within(v, bound) == -bound <= v /\ v <= bound
    IN  IF Within(lat, 90000) /\ Within(lon, 180000) THEN <<lat, lon>>
        ELSE IF ~Within(lat, 90000) /\ Within(lat, 180000) /\ Within(lon, 90000)
             THEN <<lon, lat>>
             ELSE <<>>

\* C24: each WikidataPlace record of a batch that has been processed is
\* persisted unchanged, persisted with latitude and longitude exchanged and
\* counted as fixed-swapped, or dropped and counted as invalid, by the rule
\* above; every persisted WikidataPlace has latitude in [-90, 90] and
\* longitude in [-180, 180].
C24_CoordinateSanityFix ==
    wdkind = "geo" =>
        /\ \A i \in DOMAIN wdseen :
               LET rec == wdseen[i]
                   nodes == {n \in wdstore : n.label = "WikidataPlace" /\ n.qid = rec.qid}
               IN  IF ExpectedCoordinates(rec) = <<>>
                   THEN nodes = {}
                   ELSE nodes = {[label |-> "WikidataPlace", qid |-> rec.qid,
                                  latitude |-> <<ExpectedCoordinates(rec)[1]>>,
                                  longitude |-> <<ExpectedCoordinates(rec)[2]>>]}
        /\ wdstats.fixed_swapped =
               Len(SelectSeq(wdseen, LAMBDA r :
                       ExpectedCoordinates(r) = <<r.longitude[1], r.latitude[1]>>
                       /\ ExpectedCoordinates(r) # <<r.latitude[1], r.longitude[1]>>))
        /\ wdstats.skipped_invalid =
               Len(SelectSeq(wdseen, LAMBDA r : ExpectedCoordinates(r) = <<>>))
        /\ \A n \in wdstore :
               /\ -90000 <= n.latitude[1] /\ n.latitude[1] <= 90000
               /\ -180000 <= n.longitude[1] /\ n.longitude[1] <= 180000

\* C24 witness: a finished load in which one record was persisted unchanged,
\* one was persisted with its coordinates exchanged and one was dropped.
C24_Witness ==
    /\ wdkind = "geo" /\ wdpc = "done"
    /\ wdstats.fixed_swapped = 1 /\ wdstats.skipped_invalid = 1
    /\ [label |-> "WikidataPlace", qid |-> "Q62", latitude |-> <<37775>>,
        longitude |-> <<-122419>>] \in wdstore
    /\ Cardinality(wdstore) = 2

\* C28: every person and organization record its filter wrote to the stream
\* is loaded by the store writer; the one line the writer skips at the start
\* of the stream is a metadata line.
C28_SkippedLineIsMetadata ==
    (wdkind \in {"people", "orgs"} /\ wdpc = "done") =>
        /\ wdinput[1].meta
        /\ \A i \in DOMAIN wdinput :
               ~wdinput[i].meta =>
                   \E n \in wdstore :
                       n.label = NodeLabel(wdkind) /\ n.qid = wdinput[i].qid

----------------------------------------------------------------------------
(* LINCS Historical Canadians: create_family_relationships                  *)
(* (load_lincs_historical_canadians.py).                                    *)

\* batch_size: 500.
FamBatchSize == 2
\* Runs of the import on the same file.
MaxFamRuns == 2

\* The marriages the parser found: the two persons joined, in the order the
\* graph lists them, and the display date ("" when the event has none).
Marriage(a, b, date) == [a |-> a, b |-> b, date |-> date]

MarriageFacts ==
    {Marriage(1, 2, "1850"), Marriage(2, 1, ""), Marriage(2, 3, "1860"),
     Marriage(3, 1, "")}

\* A mother or father named by a birth event.
ParentFacts == {[child |-> 3, parent |-> 1, parentType |-> "mother"]}

\* person['relationships'] of the persons file (extract_marriages adds the
\* relationship to both spouses): <<personId, other personId, date>>.
SpouseRelationships(facts) ==
    {<<m.a, m.b, m.date>> : m \in facts} \cup {<<m.b, m.a, m.date>> : m \in facts}

\* tuple(sorted([person_id, rel['personId']]))
SortedPair(x, y) == <<Min(x, y), Max(x, y)>>

\* spouse_rels: the set of (spouse1, spouse2, date).
spouse_rels(facts) ==
    {[spouse1 |-> SortedPair(r[1], r[2])[1], spouse2 |-> SortedPair(r[1], r[2])[2],
      date |-> r[3]] : r \in SpouseRelationships(facts)}

\* Every order in which a set can be turned into a list.
ListsOf(S) ==
    {q \in [1..Cardinality(S) -> S] : \A i, j \in DOMAIN q : i # j => q[i] # q[j]}

NextEdgeId(edges) == Cardinality(edges) + 1

\* CREATE instead of MERGE: a relationship per list entry.
CreateSpouse(edges, sp) ==
    edges \cup {[id |-> NextEdgeId(edges), type |-> "SPOUSE_OF",
                 src |-> sp.spouse1, dst |-> sp.spouse2, prop |-> sp.date]}

\* MERGE (s1)-[r:SPOUSE_OF]-(s2) SET r.marriageDate = rel.date: the pattern
\* has no direction, so a relationship between the two persons in either
\* direction is matched and its date set; only when there is none is a
\* relationship created.
MergeSpouse(edges, sp) ==
    LET found == {e \in edges : /\ e.type = "SPOUSE_OF"
                                /\ {e.src, e.dst} = {sp.spouse1, sp.spouse2}}
    IN  IF found # {}
        THEN (edges \ found) \cup {[e EXCEPT !.prop = sp.date] : e \in found}
        ELSE edges \cup {[id |-> NextEdgeId(edges), type |-> "SPOUSE_OF",
                          src |-> sp.spouse1, dst |-> sp.spouse2,
                          prop |-> sp.date]}

\* UNWIND $batch AS rel
\* MATCH (s1:HistoricalPerson {personId: rel.spouse1})
\* MATCH (s2:HistoricalPerson {personId: rel.spouse2})
\* A row one of whose persons has no node yields nothing.
RECURSIVE MergeSpouses(_, _, _)
MergeSpouses(nodes, edges, batch) ==
    IF batch = <<>> THEN edges
    ELSE MergeSpouses(nodes,
             IF Head(batch).spouse1 \in nodes /\ Head(batch).spouse2 \in nodes
             THEN MergeSpouse(edges, Head(batch))
             ELSE edges,
             Tail(batch))

\* MERGE (a)-[:TYPE {relationship: prop}]->(b)
MergeDirected(edges, type, src, dst, prop) ==
    IF \E e \in edges : e.type = type /\ e.src = src /\ e.dst = dst /\ e.prop = prop
    THEN edges
    ELSE edges \cup {[id |-> NextEdgeId(edges), type |-> type, src |-> src,
                      dst |-> dst, prop |-> prop]}

\* UNWIND $batch AS rel
\* MATCH (parent:HistoricalPerson {personId: rel.parentId})
\* MATCH (child:HistoricalPerson {personId: rel.childId})
\* MERGE (parent)-[:PARENT_OF ...]->(child) MERGE (child)-[:CHILD_OF ...]->(parent)
\* A row whose parent or child has no node yields nothing.
RECURSIVE MergeParents(_, _, _)
MergeParents(nodes, edges, batch) ==
    IF batch = <<>> THEN edges
    ELSE MergeParents(nodes,
             IF Head(batch).parent \in nodes /\ Head(batch).child \in nodes
             THEN MergeDirected(
                      MergeDirected(edges, "PARENT_OF", Head(batch).parent,
                                    Head(batch).child, Head(batch).parentType),
                      "CHILD_OF", Head(batch).child, Head(batch).parent,
                      Head(batch).parentType)
             ELSE edges,
             Tail(batch))

\* The persons of the persons file, which load_persons makes nodes of:
\* save_to_json of the parser keeps a person with a birth or death event,
\* a Wikidata id or a relationship.  A spouse has a relationship and a
\* child named by a birth event has that event; a mother or father may
\* have a name only and is then not in the file.
PersonsInFile(facts, parents) ==
    {m.a : m \in facts} \cup {m.b : m \in facts} \cup {p.child : p \in parents}

FamBatchOf(list, i) ==
    SubSeq(list, i * FamBatchSize + 1, Min((i + 1) * FamBatchSize, Len(list)))

\* The file is read and the relationships collected; the spouse list is
\* list(set) in an arbitrary order.
FamStart ==
    /\ fampc \in {"idle", "done"}
    /\ famruns < MaxFamRuns
    /\ famruns' = famruns + 1
    /\ famplist' \in ListsOf(famparents)
    /\ famlist' \in ListsOf(spouse_rels(faminput))
    /\ famidx' = 0
    /\ fampc' = "parents"
    /\ UNCHANGED <<adminVars, resolverVars, linkerVars, filterVars, gazVars,
                   wdlVars, faminput, famparents, famnodes, famedges>>

\* One batch of the parent-child loop, or its end.
FamParentBatch ==
    /\ fampc = "parents"
    /\ IF famidx * FamBatchSize < Len(famplist)
       THEN /\ famedges' = MergeParents(famnodes, famedges,
                                         FamBatchOf(famplist, famidx))
            /\ famidx' = famidx + 1
            /\ UNCHANGED fampc
       ELSE /\ fampc' = "spouses"
            /\ famidx' = 0
            /\ UNCHANGED famedges
    /\ UNCHANGED <<adminVars, resolverVars, linkerVars, filterVars, gazVars,
                   wdlVars, faminput, famparents, famnodes, famlist, famplist,
                   famruns>>

\* One batch of the spouse loop.
FamSpouseBatch ==
    /\ fampc = "spouses"
    /\ famidx * FamBatchSize < Len(famlist)
    /\ famedges' = MergeSpouses(famnodes, famedges,
                                  FamBatchOf(famlist, famidx))
    /\ famidx' = famidx + 1
    /\ UNCHANGED <<adminVars, resolverVars, linkerVars, filterVars, gazVars,
                   wdlVars, faminput, famparents, famnodes, fampc, famlist,
                   famplist, famruns>>

\* The end of the spouse loop.
FamDone ==
    /\ fampc = "spouses"
    /\ famidx * FamBatchSize >= Len(famlist)
    /\ fampc' = "done"
    /\ UNCHANGED <<adminVars, resolverVars, linkerVars, filterVars, gazVars,
                   wdlVars, faminput, famparents, famnodes, famlist, famplist,
                   famidx, famedges, famruns>>

FamilyNext == FamStart \/ FamParentBatch \/ FamSpouseBatch \/ FamDone

\* The inputs: every non-empty set of marriage facts, with or without a
\* birth event.  load_persons has made a HistoricalPerson node of every
\* person of the file: the persons the facts put there, and any of the
\* others (one with a death event or a Wikidata id).
FamilyInit ==
    /\ AdminInit
    /\ ResolverIdle
    /\ LinkerIdle
    /\ FilterIdle
    /\ GazIdle
    /\ WdlIdle
    /\ faminput \in (SUBSET MarriageFacts) \ {{}}
    /\ famparents \in SUBSET ParentFacts
    /\ famnodes \in {S \in SUBSET (1..3) :
                        PersonsInFile(faminput, famparents) \subseteq S}
    /\ fampc = "idle"
    /\ famlist = <<>>
    /\ famplist = <<>>
    /\ famidx = 0
    /\ famedges = {}
    /\ famruns = 0

SpecFamily == FamilyInit /\ [][FamilyNext]_vars

\* The SPOUSE_OF relationships between two persons, in either direction.
SpouseEdges(x, y) ==
    {e \in famedges : e.type = "SPOUSE_OF" /\ {e.src, e.dst} = {x, y}}

\* C25: no two persons are ever connected by more than one SPOUSE_OF edge,
\* and after the load each pair of spouses named by a marriage fact is
\* connected by exactly one, however many facts mention the pair and
\* however often the load is run.
C25_OneSpouseEdgePerPair ==
    /\ \A x, y \in 1..3 : Cardinality(SpouseEdges(x, y)) <= 1
    /\ fampc = "done" =>
           \A m \in faminput : Cardinality(SpouseEdges(m.a, m.b)) = 1

\* C25 witness: the load has run twice over a pair named by two marriage
\* facts, one with a date and one without, from either spouse's side.
C25_Witness ==
    /\ fampc = "done" /\ famruns = 2
    /\ {Marriage(1, 2, "1850"), Marriage(2, 1, "")} \subseteq faminput
    /\ Cardinality(SpouseEdges(1, 2)) = 1

----------------------------------------------------------------------------
(* Termination of the Phase B batch loop (link_all_optimized).              *)

\* A pass of the loop after which the loop goes round again.
OptLoopsAgain ==
    /\ rpc = "opt_write"
    /\ rpc' = "opt"
    /\ ridx' = ridx
    /\ rbatches' = rbatches + 1

\* The pass gave a SAME_AS edge to one of the WikidataPlaces it fetched.
PassLinked ==
    \E q \in Qids(rfetched) : HasEdge(rel, q, {"SAME_AS"})

\* C26: the loop over the batches of unlinked WikidataPlaces of a country
\* stops after finitely many passes, also when batch_size or more of its
\* WikidataPlaces receive a NEAR or LOCATED_IN edge or none and so still
\* have no outgoing SAME_AS: every pass that goes round again leaves
\* fewer WikidataPlaces for the query to select than it found, one of the
\* fetched ones at least now having a SAME_AS edge.  A pass that goes
\* round again without that fetches and links the same batch again, and
\* so does every pass after it.
C26_BatchLoopTerminates ==
    [][OptLoopsAgain => PassLinked]_vars

\* C27: when an invocation of the direct Phase A has completed, every
\* WikidataPlace whose geonamesId parses to the geonameId of an existing
\* Place has a SAME_AS edge to that Place, also when more WikidataPlaces
\* than batch_size carry a geonamesId and when some of them match no Place.
C27_PhaseALinksEveryIdMatch ==
    rlast = "A_direct" =>
        \A i \in world :
            \A g \in GeoPlaces :
                CypherEq(IntVal(g.geonameId), ToInteger(WikidataCatalog[i].geonamesId)) =>
                    \E e \in rel : /\ e.type = "SAME_AS"
                                   /\ e.src = WikidataCatalog[i].qid
                                   /\ e.dst = g.geonameId

----------------------------------------------------------------------------
\* C29: after any sequence of Admin Hierarchy Builder runs, including runs
\* in which a country fails and a later run in which it succeeds, no country
\* appears more than once in completed_countries, no country appears more
\* than once in failed_countries, and no country is in both lists.  Stated
\* of the state in memory and of the state file.
NoRepeat(s) == \A i, j \in DOMAIN s : s[i] = s[j] => i = j

FailedSeq(st) == [i \in DOMAIN st.failed_countries |->
                      st.failed_countries[i].country]

ProgressListsClean(st) ==
    /\ NoRepeat(st.completed_countries)
    /\ NoRepeat(FailedSeq(st))
    /\ \A i \in DOMAIN st.completed_countries :
           st.completed_countries[i] \notin FailedNames(st)

C29_ProgressListsDisjoint ==
    /\ ProgressListsClean(state)
    /\ ProgressListsClean(LoadState(file))

----------------------------------------------------------------------------
\* C30: Phase A and Phase B never create, delete or modify a Place or a
\* WikidataPlace node: the WikidataPlace nodes of the store stay what they
\* were (the Place nodes are the fixed set GeoPlaces), and every resolver
\* edge runs from a WikidataPlace of the store to a Place of the store.  A
\* link whose target Place does not exist leaves no edge and no node.
EdgeEndsExist ==
    \A e \in rel : e.src \in StoreQids(world) /\ e.dst \in PlaceIds

C30_ResolverWritesOnlyEdges ==
    /\ [] EdgeEndsExist
    /\ [][world' = world]_vars

\* Phase A has run over a store that holds Q172, whose geonamesId names a
\* Place, and Q4, whose geonamesId names no Place: Q172 is linked, and
\* nothing was written for Q4.
C30_Witness ==
    /\ rlast = "A_direct"
    /\ {1, 4} \subseteq world
    /\ \E e \in rel : e.src = "Q172" /\ e.dst = 6167865 /\ e.type = "SAME_AS"
    /\ ~ \E e \in rel : e.src = "Q4"
    /\ ~ \E g \in GeoPlaces :
           CypherEq(IntVal(g.geonameId), ToInteger(WikidataCatalog[4].geonamesId))

====
